---- MODULE Spec2Model ----
(***************************************************************************)
(* Cut Trees (HYTOPIA): TreeManager, ChestManager, WorldLoopTimerManager,  *)
(* PlayerManager and the chest-opening handler of index.ts, as one state   *)
(* machine.  Maps of the code are sets (or sequences) of records keyed by  *)
(* id; a persisted blob is a function from its top-level keys.             *)
(***************************************************************************)
EXTENDS Integers, Sequences, FiniteSets, TLC

VARIABLES
  worldCfg,                 \* name of the authored world (spawn points, players, timestep)
  tickDurationMs,           \* world.loop.timestepS * 1000
  currentTick,              \* world.loop.currentTick
  timeouts,                 \* WorldLoopTimerManager.timeouts, in insertion order
  intervals,                \* WorldLoopTimerManager.intervals, in insertion order
  nextId,                   \* WorldLoopTimerManager.nextId
  treeSpawnPoints,          \* TreeManager.spawnPoints
  trees,                    \* TreeManager.trees
  chestSpawnPoints,         \* ChestManager.spawnPoints
  chests,                   \* ChestManager.chests
  treeChopsNearSpawnPoint,  \* ChestManager.treeChopsNearSpawnPoint
  playerSessions,           \* PlayerManager.playerSessions
  persisted,                \* the host's persisted data of each player
  now,                      \* Date.now(), in milliseconds
  ev,                       \* what the last handler did (calls it made, value it returned)
  life,                     \* per tree id: damage dealt and reward events since its (re)spawn
  expect,                   \* per player: the deltas of every chest opening so far
  rdata,                    \* the input handed to a function on its own, and its result
  swung,                    \* per player: the accepted chop actions and the time of the last
  fires                     \* per timer id: the runs of its callback and the tick of the last

vars == <<worldCfg, tickDurationMs, currentTick, timeouts, intervals, nextId, treeSpawnPoints,
          trees, chestSpawnPoints, chests, treeChopsNearSpawnPoint, playerSessions, persisted,
          now, ev, life, expect, rdata, swung, fires>>

-----------------------------------------------------------------------------
(* Bounds of the model *)

MaxTick == 3          \* ticks notified in the grove, pair and vault worlds
MaxTickScenario == 10 \* ticks notified in the one-player scenario world
MaxTickCap == 22      \* ticks notified in the inventory-cap world
MaxChops == 2         \* tree destructions per player in the grove and pair worlds
MaxOpens == 2         \* chest openings per player
MaxChopsScenario == 8 \* tree destructions in the one-player scenario world
PowerCap == 2100      \* the /power command is tried while power stays <= PowerCap
MaxDebt == 10         \* the /power command is tried while power stays >= -MaxDebt
ClockStart == 5000    \* Date.now() when the server starts
RollTableLen == 4     \* keys of a weight table handed to rollWeighted on its own
MaxTargetCount == 40  \* chest spawn points asked of generateChestSpawnPoints
CandidateCount == 47  \* candidate positions handed to generateChestSpawnPoints
MaxClock == 2000      \* milliseconds of wall-clock time in the orchard
MaxTimers == 2        \* timers scheduled in the timers world
MaxTickTimers == 5    \* last tick notified in the timers world
MaxTickCancel == 3    \* last tick notified in the timers world with cancels
MaxCoord == 2         \* largest x coordinate of a tree in the radius-query inputs
MaxWeight == 1        \* largest weight in the drop tables tried
MaxChestCount == 7    \* most chests asked of generateWorldSpawnPoints
GladeEdge == 12       \* the land of the glade map spans x = -9 .. GladeEdge
MaxChopsRegrow == 3   \* trees felled in the regrowth world
MaxTickRegrow == 6    \* last tick notified in the regrowth world

-----------------------------------------------------------------------------
(* Game configuration *)

AxeIds == {"wooden", "stone", "iron", "golden", "diamond", "ruby", "sapphire", "emerald"}

\* AXES[...].damage
AxeDamage ==
  [wooden |-> 12, stone |-> 20, iron |-> 35, golden |-> 28,
   diamond |-> 55, ruby |-> 80, sapphire |-> 60, emerald |-> 60]

\* AXES[...].cooldown, in milliseconds
AxeCooldownMs ==
  [wooden |-> 900, stone |-> 850, iron |-> 800, golden |-> 600,
   diamond |-> 650, ruby |-> 700, sapphire |-> 700, emerald |-> 650]

\* AXES[...].areaRadius, in tenths of a block
AxeAreaRadius ==
  [wooden |-> 17, stone |-> 20, iron |-> 26, golden |-> 30,
   diamond |-> 33, ruby |-> 33, sapphire |-> 42, emerald |-> 33]

\* AXES[...].perks?.extraRollChance ?? 0, in thousandths
ExtraRollChance == [a \in AxeIds |-> IF a = "emerald" THEN 200 ELSE 0]

TREES ==
  [fern            |-> [maxHp |-> 35,  powerReward |-> 2,  respawnSeconds |-> 20],
   weathered_stump |-> [maxHp |-> 70,  powerReward |-> 4,  respawnSeconds |-> 25],
   driftwood       |-> [maxHp |-> 70,  powerReward |-> 4,  respawnSeconds |-> 25],
   oak_small       |-> [maxHp |-> 140, powerReward |-> 9,  respawnSeconds |-> 30],
   pine_small      |-> [maxHp |-> 140, powerReward |-> 9,  respawnSeconds |-> 30],
   oak_medium      |-> [maxHp |-> 280, powerReward |-> 18, respawnSeconds |-> 40],
   pine_medium     |-> [maxHp |-> 280, powerReward |-> 18, respawnSeconds |-> 40],
   oak_big         |-> [maxHp |-> 560, powerReward |-> 36, respawnSeconds |-> 55],
   pine_big        |-> [maxHp |-> 560, powerReward |-> 36, respawnSeconds |-> 55],
   palm            |-> [maxHp |-> 560, powerReward |-> 36, respawnSeconds |-> 55]]

WORLD_MULTIPLIERS ==
  [forest |-> [hpMultiplier |-> 1,  powerMultiplier |-> 1],
   lava   |-> [hpMultiplier |-> 10, powerMultiplier |-> 3]]

\* TreeManager.worldType (its field initialiser; nothing calls setWorldType)
worldType == "forest"

applyWorldMultipliers(def, world) ==
  LET multipliers == IF world \in DOMAIN WORLD_MULTIPLIERS
                     THEN WORLD_MULTIPLIERS[world] ELSE WORLD_MULTIPLIERS.forest
  IN [maxHp |-> def.maxHp * multipliers.hpMultiplier,
      powerReward |-> def.powerReward * multipliers.powerMultiplier]

ChestTiers == <<"common", "rare", "epic", "mythic">>

Rarities == <<"common", "rare", "epic", "mythic", "exotic">>

INVENTORY_CAP_PER_RUN == 20
NEARBY_TREES_RADIUS == 22

\* CHEST_SPAWN_WEIGHTS, in the iteration order of the object literal
CHEST_SPAWN_WEIGHTS == <<46, 33, 16, 5>>

CHESTS ==
  [common |-> [id |-> "common", dropTable |-> <<70, 25, 4, 1, 0>>,
               unlockCost |-> 8, powerGate |-> 0, respawnSeconds |-> 150],
   rare   |-> [id |-> "rare", dropTable |-> <<20, 60, 18, 2, 0>>,
               unlockCost |-> 18, powerGate |-> 0, respawnSeconds |-> 150],
   epic   |-> [id |-> "epic", dropTable |-> <<5, 30, 50, 14, 1>>,
               unlockCost |-> 30, powerGate |-> 2000, respawnSeconds |-> 360],
   mythic |-> [id |-> "mythic", dropTable |-> <<1, 10, 35, 50, 4>>,
               unlockCost |-> 45, powerGate |-> 10000, respawnSeconds |-> 750]]

\* Object.keys(AXES), the iteration order of every AXE_POOL_BY_RARITY row
AxeOrder == <<"wooden", "stone", "iron", "golden", "diamond", "ruby", "sapphire", "emerald">>

AXE_POOL_BY_RARITY ==
  [common |-> <<100, 0, 0, 0, 0, 0, 0, 0>>,
   rare   |-> <<0, 100, 0, 0, 0, 0, 0, 0>>,
   epic   |-> <<0, 0, 75, 25, 0, 0, 0, 0>>,
   mythic |-> <<0, 0, 0, 0, 100, 0, 0, 0>>,
   exotic |-> <<0, 0, 0, 0, 0, 34, 33, 33>>]

SHARDS_FOR_DUPLICATE ==
  [common |-> 1, rare |-> 3, epic |-> 8, mythic |-> 20, exotic |-> 60]

-----------------------------------------------------------------------------
(* Small helpers *)

EmptyMap == [k \in {} |-> 0]

\* { ...a, ...b } of JavaScript: the keys of both, b's value where b has the key
Spread(a, b) ==
  [k \in DOMAIN a \cup DOMAIN b |-> IF k \in DOMAIN b THEN b[k] ELSE a[k]]

RECURSIVE SumSeq(_)
SumSeq(s) == IF s = <<>> THEN 0 ELSE Head(s) + SumSeq(Tail(s))

Max(a, b) == IF a >= b THEN a ELSE b

\* Math.ceil(a / b) for a >= 0, b > 0
CeilDiv(a, b) == (a + b - 1) \div b

-----------------------------------------------------------------------------
(* WorldLoopTimerManager *)

\* msToTicks(ms)
msToTicks(ms) == Max(1, CeilDiv(ms, tickDurationMs))

\* setTimeout(delayMs, callback) on the pair [timeouts, nextId]; the callback is named
\* by a record [kind, id]
setTimeout(tm, delayMs, callback) ==
  [timeouts |-> Append(tm.timeouts,
                       [id |-> tm.nextId,
                        targetTick |-> currentTick + msToTicks(delayMs),
                        callback |-> callback]),
   nextId |-> tm.nextId + 1]

\* setInterval(intervalMs, callback) on the pair [intervals, nextId]
setInterval(tm, intervalMs, callback) ==
  [intervals |-> Append(tm.intervals,
                        [id |-> tm.nextId,
                         intervalTicks |-> msToTicks(intervalMs),
                         nextTick |-> currentTick + msToTicks(intervalMs),
                         callback |-> callback]),
   nextId |-> tm.nextId + 1]

\* this.timeouts.delete(id)
DeleteTimeout(ts, id) == SelectSeq(ts, LAMBDA e : e.id # id)

\* a cancel that deletes nothing
clearTimeoutKeeps(ts, id) == ts

\* clearTimeout(id): this.timeouts.delete(id)
clearTimeout(ts, id) == DeleteTimeout(ts, id)

\* clearInterval(id): this.intervals.delete(id)
clearInterval(is, id) == SelectSeq(is, LAMBDA e : e.id # id)

-----------------------------------------------------------------------------
(* Persisted player data: getPersistedData / setPersistedData of the host, and
   loadPlayerData / savePlayerData.  A store context st = [has, data, saves, loads]
   is the persisted blob of one player together with the calls one handler has made:
   saves holds the key set of every setPersistedData call, loads counts loadPlayerData. *)

DEFAULT_PLAYER_DATA ==
  [power |-> 0, shards |-> 0,
   ownedAxes |-> [a \in {"wooden"} |-> 1],
   equippedAxe |-> "wooden",
   axeDamageBonus |-> EmptyMap, axeAreaBonus |-> EmptyMap,
   stats |-> [treesChopped |-> 0, chestsOpened |-> 0, totalShardsClaimed |-> 0]]

NoData == [has |-> FALSE, data |-> EmptyMap]

StoreCtx(blob) == [has |-> blob.has, data |-> blob.data, saves |-> <<>>, loads |-> 0]

Blob(st) == [has |-> st.has, data |-> st.data]

\* player.setPersistedData(updates): shallow merge of the top-level keys
setPersistedData(st, updates) ==
  [st EXCEPT !.has = TRUE,
             !.data = IF st.has THEN Spread(st.data, updates) ELSE updates,
             !.saves = Append(@, DOMAIN updates)]

savePlayerData(st, updates) == setPersistedData(st, updates)

OrEmpty(saved, k) == IF k \in DOMAIN saved THEN saved[k] ELSE EmptyMap

\* the value loadPlayerData returns
LoadedData(st) ==
  IF ~st.has THEN DEFAULT_PLAYER_DATA
  ELSE LET saved == st.data
           top == Spread(DEFAULT_PLAYER_DATA, saved)
       IN [power |-> top.power, shards |-> top.shards,
           ownedAxes |-> Spread(DEFAULT_PLAYER_DATA.ownedAxes, OrEmpty(saved, "ownedAxes")),
           equippedAxe |-> top.equippedAxe,
           axeDamageBonus |-> OrEmpty(saved, "axeDamageBonus"),
           axeAreaBonus |-> OrEmpty(saved, "axeAreaBonus"),
           stats |-> Spread(DEFAULT_PLAYER_DATA.stats, OrEmpty(saved, "stats"))]

\* the store after loadPlayerData: a first-time player gets the defaults persisted
loadPlayerData(st) ==
  LET counted == [st EXCEPT !.loads = @ + 1]
  IN IF ~st.has THEN setPersistedData(counted, DEFAULT_PLAYER_DATA) ELSE counted

awardPower(st, amount) ==
  LET data == LoadedData(st)
  IN savePlayerData(loadPlayerData(st), [power |-> data.power + amount])

incrementTreesChopped(st) ==
  LET data == LoadedData(st)
  IN savePlayerData(loadPlayerData(st),
                    [stats |-> [data.stats EXCEPT !.treesChopped = @ + 1]])

\* a grant that writes the count 1 whatever the player holds
grantAxeAlways(st, axeId) ==
  LET data == LoadedData(st)
  IN [st |-> savePlayerData(loadPlayerData(st),
                            [ownedAxes |-> Spread(data.ownedAxes, [a \in {axeId} |-> 1])]),
      granted |-> TRUE]

\* grantAxe(player, axeId): the store after it, and the value it returns
grantAxe(st, axeId) ==
  LET data == LoadedData(st)
      st1 == loadPlayerData(st)
      ownsAxe == (IF axeId \in DOMAIN data.ownedAxes THEN data.ownedAxes[axeId] ELSE 0) > 0
  IN IF ownsAxe THEN [st |-> st1, granted |-> FALSE]
     ELSE [st |-> savePlayerData(st1, [ownedAxes |-> Spread(data.ownedAxes,
                                                             [a \in {axeId} |-> 1])]),
           granted |-> TRUE]

\* PlayerManager.equipAxe, its persisted part
equipAxe(st, axeId) ==
  IF axeId \notin AxeIds THEN st
  ELSE LET data == LoadedData(st)
           st1 == loadPlayerData(st)
       IN IF data.equippedAxe # axeId THEN savePlayerData(st1, [equippedAxe |-> axeId])
          ELSE st1

\* sendUIStateUpdate(player): reads the persisted data for the state message
sendUIStateUpdate(st) == loadPlayerData(st)

Owned(data, axeId) == IF axeId \in DOMAIN data.ownedAxes THEN data.ownedAxes[axeId] ELSE 0

-----------------------------------------------------------------------------
(* Map<string, Instance>: a set of instance records, one per key *)

MapGet(m, id) == {e \in m : e.id = id}

MapDelete(m, id) == {e \in m : e.id # id}

\* a map whose set() leaves the old entry of the key beside the new one
MapSetKeepOld(m, inst) == m \cup {inst}

\* a map whose set() of a chopped instance removes the entry of the key
MapSetDropsChopped(m, inst) ==
  IF inst.isChopped THEN MapDelete(m, inst.id) ELSE MapDelete(m, inst.id) \cup {inst}

\* map.set(inst.id, inst): replaces the entry of that key
MapSet(m, inst) == MapDelete(m, inst.id) \cup {inst}

\* planar squared distance: dx * dx + dz * dz
DistSq(a, b) == (a.x - b.x) * (a.x - b.x) + (a.z - b.z) * (a.z - b.z)

\* Array.prototype.find(p => p.id === id): the first match, as a sequence of 0 or 1 points
FindPoint(points, id) ==
  LET hits == SelectSeq(points, LAMBDA q : q.id = id)
  IN IF hits = <<>> THEN <<>> ELSE <<Head(hits)>>

-----------------------------------------------------------------------------
(* Weighted rolls; an rng() outcome is given in thousandths, k standing for k / 1000 *)

\* the loop "r -= w; if (r <= 0) return key" on r scaled by 1000; 0 when the loop ends
RECURSIVE RollFrom(_, _, _)
RollFrom(weights, r1000, i) ==
  IF i > Len(weights) THEN 0
  ELSE LET r2 == r1000 - 1000 * weights[i]
       IN IF r2 <= 0 THEN i ELSE RollFrom(weights, r2, i + 1)

\* rollChestTier(rng)
rollChestTier(k) ==
  LET i == RollFrom(CHEST_SPAWN_WEIGHTS, k * SumSeq(CHEST_SPAWN_WEIGHTS), 1)
  IN IF i = 0 THEN "common" ELSE ChestTiers[i]

\* a rollWeighted that throws for a negative total only
rollWeightedZeroPasses(weights, k) ==
  LET total == SumSeq(weights)
  IN IF total < 0 THEN 0
     ELSE LET i == RollFrom(weights, k * total, 1)
          IN IF i = 0 THEN Len(weights) ELSE i

\* rollWeighted(weights, rng): the index of the key returned, 0 when it throws
rollWeighted(weights, k) ==
  LET total == SumSeq(weights)
  IN IF total <= 0 THEN 0
     ELSE LET i == RollFrom(weights, k * total, 1)
          IN IF i = 0 THEN Len(weights) ELSE i

-----------------------------------------------------------------------------
(* TreeManager; tm = [trees, life] *)

FreshLife == [dealt |-> 0, hits |-> 0, rewards |-> 0, notifs |-> 0]

\* spawnTree(point)
spawnTree(tm, point) ==
  IF point.treeId \notin DOMAIN TREES THEN tm
  ELSE LET def == TREES[point.treeId]
           m == applyWorldMultipliers(def, worldType)
           instance == [id |-> point.id, treeId |-> point.treeId, entity |-> TRUE,
                        currentHp |-> m.maxHp, maxHp |-> m.maxHp,
                        powerReward |-> m.powerReward,
                        position |-> point.position, isChopped |-> FALSE]
       IN [trees |-> MapSet(tm.trees, instance),
           life |-> [tm.life EXCEPT ![point.id] = FreshLife]]

RECURSIVE spawnAllTrees(_, _)
spawnAllTrees(tm, points) ==
  IF points = <<>> THEN tm
  ELSE spawnAllTrees(spawnTree(tm, Head(points)), Tail(points))

\* respawnTree(treeId)
\* a respawn that lets the timer pass without touching the tree
respawnTreeIdle(tm, points, treeId) == tm

respawnTree(tm, points, treeId) ==
  IF MapGet(tm.trees, treeId) = {} THEN tm
  ELSE LET point == FindPoint(points, treeId)
       IN IF point = <<>> THEN tm
          ELSE spawnTree([tm EXCEPT !.trees = MapDelete(@, treeId)], point[1])

\* a test under which a tree at exactly 0 HP stays up
IsChoppedDownStrict(hp) == hp < 0

\* damageTree: "if (tree.currentHp <= 0)"
IsChoppedDown(hp) == hp <= 0

\* a damageTree that turns away unknown ids only
DamageRefusedUnknownOnly(ts, treeId) == MapGet(ts, treeId) = {}

\* damageTree: "if (!tree || tree.isChopped || !tree.entity) return false"
DamageRefused(ts, treeId) ==
  \/ MapGet(ts, treeId) = {}
  \/ \E e \in MapGet(ts, treeId) : e.isChopped \/ ~e.entity

\* getAllTrees()
getAllTrees(ts) == {e \in ts : ~e.isChopped}

\* getTree(treeId): this.trees.get(treeId), a set of 0 or 1 instances
getTree(ts, treeId) == MapGet(ts, treeId)

-----------------------------------------------------------------------------
(* ChestManager *)

\* an unlock test that asks for one chop more than the cost
canUnlockChestOffByOne(chest, playerPower, nearbyTreesChopped) ==
  IF playerPower < chest.powerGate
  THEN [canUnlock |-> FALSE,
        reason |-> [needs |-> "power", amount |-> chest.powerGate, have |-> playerPower]]
  ELSE IF nearbyTreesChopped <= chest.unlockCost
  THEN [canUnlock |-> FALSE,
        reason |-> [needs |-> "trees", amount |-> chest.unlockCost - nearbyTreesChopped + 1,
                    have |-> nearbyTreesChopped]]
  ELSE [canUnlock |-> TRUE, reason |-> [needs |-> "nothing", amount |-> 0, have |-> 0]]

\* canUnlockChest(chest, playerPower, nearbyTreesChopped)
canUnlockChest(chest, playerPower, nearbyTreesChopped) ==
  IF playerPower < chest.powerGate
  THEN [canUnlock |-> FALSE,
        reason |-> [needs |-> "power", amount |-> chest.powerGate, have |-> playerPower]]
  ELSE IF nearbyTreesChopped < chest.unlockCost
  THEN [canUnlock |-> FALSE,
        reason |-> [needs |-> "trees", amount |-> chest.unlockCost - nearbyTreesChopped,
                    have |-> nearbyTreesChopped]]
  ELSE [canUnlock |-> TRUE, reason |-> [needs |-> "nothing", amount |-> 0, have |-> 0]]

\* spawnChest(point): the authored tier, or a rolled one
spawnChest(cs, point, k) ==
  LET tier == IF "chestType" \in DOMAIN point THEN point.chestType ELSE rollChestTier(k)
  IN MapSet(cs, [id |-> point.id, tier |-> tier, position |-> point.position,
                 isCollected |-> FALSE])

RECURSIVE spawnAllChests(_, _, _)
spawnAllChests(cs, points, draws) ==
  IF points = <<>> THEN cs
  ELSE spawnAllChests(spawnChest(cs, Head(points), draws[Head(points).id]),
                      Tail(points), draws)

\* respawnChest(chestId)
respawnChest(cs, points, chestId, k) ==
  LET point == FindPoint(points, chestId)
  IN IF point = <<>> THEN cs
     ELSE spawnChest(MapDelete(cs, chestId), point[1], k)

\* getPlayerTreeChops(player, spawnPointId)
getPlayerTreeChops(chops, player, spawnPointId) ==
  IF spawnPointId \in DOMAIN chops THEN chops[spawnPointId][player] ELSE 0

\* trackTreeChop(player, treePosition), over the spawn points in order
RECURSIVE trackTreeChop(_, _, _, _, _)
trackTreeChop(chops, cs, points, player, treePosition) ==
  IF points = <<>> THEN chops
  ELSE LET point == Head(points)
           live == {c \in MapGet(cs, point.id) : ~c.isCollected}
           radius == IF "nearbyRadius" \in DOMAIN point THEN point.nearbyRadius
                     ELSE NEARBY_TREES_RADIUS
           counted == /\ \E c \in live : DistSq(c.position, treePosition) <= radius * radius
                      /\ point.id \in DOMAIN chops
           chops1 == IF counted
                     THEN [chops EXCEPT ![point.id] = [@ EXCEPT ![player] = @ + 1]]
                     ELSE chops
       IN trackTreeChop(chops1, cs, Tail(points), player, treePosition)

\* getAllChests()
getAllChests(cs) == {c \in cs : ~c.isCollected}

-----------------------------------------------------------------------------
(* processTick: the one-shot timers of a snapshot in order, then the repeating ones;
   w = [trees, life, chests, timeouts, intervals, fires, escaped] is what the callbacks
   and the scan itself change.  A callback is named by a record: the respawn closures
   of the managers, a probe [kind, at, delay, throws] that only counts its runs and
   throws when told to, or a cancel [kind, target] that calls clearTimeout(target). *)

FireCount(f, id) == IF id \in DOMAIN f THEN f[id].n ELSE 0

\* the record of a cancel of a pending probe: its runs so far, and that it was cancelled
MarkCancelled(f, entries, id) ==
  LET hit == SelectSeq(entries, LAMBDA e : e.id = id)
  IN IF hit = <<>> THEN f
     ELSE Spread(f, [i \in {id} |->
                       [n |-> FireCount(f, id),
                        tick |-> IF id \in DOMAIN f THEN f[id].tick ELSE 0,
                        once |-> "targetTick" \in DOMAIN hit[1],
                        callback |-> hit[1].callback,
                        cancelled |-> TRUE]])

\* entry.callback()
RunCallback(w, callback, draws) ==
  IF callback.kind = "respawnTree"
  THEN LET tm == respawnTree([trees |-> w.trees, life |-> w.life], treeSpawnPoints,
                             callback.id)
       IN [w EXCEPT !.trees = tm.trees, !.life = tm.life]
  ELSE IF callback.kind = "respawnChest"
  THEN [w EXCEPT !.chests = respawnChest(w.chests, chestSpawnPoints, callback.id,
                                         draws[callback.id])]
  ELSE IF callback.kind = "cancel"
  THEN [w EXCEPT !.timeouts = clearTimeout(@, callback.target),
                 !.fires = MarkCancelled(@, w.timeouts, callback.target)]
  ELSE w

\* a probe's run, counted
CountRun(w, entry, tick) ==
  IF entry.callback.kind = "probe"
  THEN [w EXCEPT !.fires = Spread(@, [i \in {entry.id} |->
                                        [n |-> FireCount(w.fires, entry.id) + 1,
                                         tick |-> tick,
                                         once |-> "targetTick" \in DOMAIN entry,
                                         callback |-> entry.callback,
                                         cancelled |-> /\ entry.id \in DOMAIN w.fires
                                                       /\ w.fires[entry.id].cancelled]])]
  ELSE w

Throws(callback) == callback.kind = "probe" /\ callback.throws

\* a scan without the try statement: what the callback throws leaves the scan
TryCatchRethrows(threw) == threw

\* try { entry.callback() } catch (error) { console.error(...) }: TRUE when the
\* exception leaves the statement
TryCatch(threw) == FALSE

\* a scan that fires a one-shot only after its target tick has passed
IsDueStrict(tick, entry) == tick > entry.targetTick

\* processTick: "if (currentTick >= entry.targetTick)"
IsDue(tick, entry) == tick >= entry.targetTick

\* the loop over Array.from(this.timeouts.entries())
RECURSIVE ScanTimeouts(_, _, _, _)
ScanTimeouts(w, snapshot, tick, draws) ==
  IF snapshot = <<>> \/ w.escaped THEN w
  ELSE LET entry == Head(snapshot)
           ran == CountRun(RunCallback(w, entry.callback, draws), entry, tick)
           w1 == IF ~IsDue(tick, entry) THEN w
                 ELSE IF TryCatch(Throws(entry.callback)) THEN [ran EXCEPT !.escaped = TRUE]
                 ELSE [ran EXCEPT !.timeouts = DeleteTimeout(@, entry.id)]
       IN ScanTimeouts(w1, Tail(snapshot), tick, draws)

\* a reschedule that keeps the old cadence
RescheduleFromTarget(entry, tick) == entry.nextTick + entry.intervalTicks

\* "entry.nextTick = currentTick + entry.intervalTicks"
Reschedule(entry, tick) == tick + entry.intervalTicks

\* the loop over Array.from(this.intervals.entries())
RECURSIVE ScanIntervals(_, _, _, _)
ScanIntervals(w, snapshot, tick, draws) ==
  IF snapshot = <<>> \/ w.escaped THEN w
  ELSE LET entry == Head(snapshot)
           ran == CountRun(RunCallback(w, entry.callback, draws), entry, tick)
           moved == [i \in DOMAIN ran.intervals |->
                       IF ran.intervals[i].id = entry.id
                       THEN [ran.intervals[i] EXCEPT !.nextTick = Reschedule(entry, tick)]
                       ELSE ran.intervals[i]]
           w1 == IF ~(tick >= entry.nextTick) THEN w
                 ELSE IF TryCatch(Throws(entry.callback)) THEN [ran EXCEPT !.escaped = TRUE]
                 ELSE [ran EXCEPT !.intervals = moved]
       IN ScanIntervals(w1, Tail(snapshot), tick, draws)

\* processTick(currentTick)
processTick(w, tick, draws) ==
  LET w1 == ScanTimeouts(w, w.timeouts, tick, draws)
  IN ScanIntervals(w1, w1.intervals, tick, draws)

-----------------------------------------------------------------------------
(* Loot: openChest and applyChestRewards.  draws is the sequence of rng() outcomes in
   call order: the extra-roll draw, then a rarity draw and an axe draw per roll. *)

\* a roll that takes an axe for a duplicate only from the second copy on
RollOnceSecondCopy(chest, playerData, rarityDraw, axeDraw) ==
  LET rarity == Rarities[rollWeighted(chest.dropTable, rarityDraw)]
      axeId == AxeOrder[rollWeighted(AXE_POOL_BY_RARITY[rarity], axeDraw)]
      ownedCount == Owned(playerData, axeId)
  IN IF ownedCount > 1
     THEN [kind |-> "shards", amount |-> SHARDS_FOR_DUPLICATE[rarity],
           axeId |-> axeId, rarity |-> rarity]
     ELSE [kind |-> "axe", amount |-> 0, axeId |-> axeId, rarity |-> rarity]

\* one pass of the roll loop of openChest, always against the playerData it was given
RollOnce(chest, playerData, rarityDraw, axeDraw) ==
  LET rarity == Rarities[rollWeighted(chest.dropTable, rarityDraw)]
      axeId == AxeOrder[rollWeighted(AXE_POOL_BY_RARITY[rarity], axeDraw)]
      ownedCount == Owned(playerData, axeId)
  IN IF ownedCount > 0
     THEN [kind |-> "shards", amount |-> SHARDS_FOR_DUPLICATE[rarity],
           axeId |-> axeId, rarity |-> rarity]
     ELSE [kind |-> "axe", amount |-> 0, axeId |-> axeId, rarity |-> rarity]

\* an opening whose extra roll also comes when the draw equals the chance
openChestAtOrBelow(chestTier, playerData, draws) ==
  LET chest == CHESTS[chestTier]
      extraRollChance == ExtraRollChance[playerData.equippedAxe]
      rollCount == 1 + (IF draws[1] <= extraRollChance THEN 1 ELSE 0)
  IN [i \in 1..rollCount |-> RollOnce(chest, playerData, draws[2 * i], draws[2 * i + 1])]

\* openChest(chestTier, playerData, rng)
openChest(chestTier, playerData, draws) ==
  LET chest == CHESTS[chestTier]
      extraRollChance == ExtraRollChance[playerData.equippedAxe]
      rollCount == 1 + (IF draws[1] < extraRollChance THEN 1 ELSE 0)
  IN [i \in 1..rollCount |-> RollOnce(chest, playerData, draws[2 * i], draws[2 * i + 1])]

\* SHARD_COSTS
DAMAGE_UPGRADE == 25
AREA_UPGRADE == 35

\* upgradeDamage(playerData, axeId): the bonus in hundredths
upgradeDamage(playerData, axeId) ==
  IF playerData.shards < DAMAGE_UPGRADE \/ Owned(playerData, axeId) = 0
  THEN [data |-> playerData, ok |-> FALSE]
  ELSE [data |-> [playerData EXCEPT
                    !.shards = @ - DAMAGE_UPGRADE,
                    !.axeDamageBonus =
                       Spread(@, [a \in {axeId} |->
                                    (IF axeId \in DOMAIN @ THEN @[axeId] ELSE 0) + 5])],
        ok |-> TRUE]

\* upgradeArea(playerData, axeId): the bonus in tenths of a block
upgradeArea(playerData, axeId) ==
  IF playerData.shards < AREA_UPGRADE \/ Owned(playerData, axeId) = 0
  THEN [data |-> playerData, ok |-> FALSE]
  ELSE [data |-> [playerData EXCEPT
                    !.shards = @ - AREA_UPGRADE,
                    !.axeAreaBonus =
                       Spread(@, [a \in {axeId} |->
                                    (IF axeId \in DOMAIN @ THEN @[axeId] ELSE 0) + 2])],
        ok |-> TRUE]

\* openChest on a chest whose drop table is dropTable: an exception of rollWeighted
\* leaves openChest, and the results pushed so far are lost with it
OpenTable(dropTable, playerData, draws) ==
  LET extraRollChance == ExtraRollChance[playerData.equippedAxe]
      rollCount == 1 + (IF draws[1] < extraRollChance THEN 1 ELSE 0)
      Thrown(i) ==
        LET r == rollWeighted(dropTable, draws[2 * i])
        IN \/ r = 0
           \/ rollWeighted(AXE_POOL_BY_RARITY[Rarities[r]], draws[2 * i + 1]) = 0
  IN IF \E i \in 1..rollCount : Thrown(i)
     THEN [threw |-> TRUE, results |-> <<>>]
     ELSE [threw |-> FALSE,
           results |-> [i \in 1..rollCount |->
                          RollOnce([dropTable |-> dropTable], playerData,
                                   draws[2 * i], draws[2 * i + 1])]]

\* a loop body that adds the shards of a duplicate twice
ApplyResultTwice(playerData, result) ==
  IF result.kind = "axe"
  THEN [playerData EXCEPT !.ownedAxes = Spread(@, [a \in {result.axeId} |-> 1])]
  ELSE [playerData EXCEPT !.shards = @ + 2 * result.amount,
                          !.stats.totalShardsClaimed = @ + 2 * result.amount]

\* the loop body of applyChestRewards
ApplyResult(playerData, result) ==
  IF result.kind = "axe"
  THEN [playerData EXCEPT !.ownedAxes = Spread(@, [a \in {result.axeId} |-> 1])]
  ELSE [playerData EXCEPT !.shards = @ + result.amount,
                          !.stats.totalShardsClaimed = @ + result.amount]

RECURSIVE ApplyResults(_, _)
ApplyResults(playerData, results) ==
  IF results = <<>> THEN playerData
  ELSE ApplyResults(ApplyResult(playerData, Head(results)), Tail(results))

applyChestRewards(playerData, results) ==
  [ApplyResults(playerData, results) EXCEPT !.stats.chestsOpened = @ + 1]

\* a patch that leaves the stats out
OpenChestPatchNoStats(playerData) ==
  [ownedAxes |-> playerData.ownedAxes, shards |-> playerData.shards]

\* handleOpenChest: the patch of its save
OpenChestPatch(playerData) ==
  [ownedAxes |-> playerData.ownedAxes, shards |-> playerData.shards,
   stats |-> playerData.stats]

\* session.collectedChests.splice(index, 1), index counted from 0
Splice(list, index) ==
  [i \in 1..(Len(list) - 1) |-> IF i <= index THEN list[i] ELSE list[i + 1]]

-----------------------------------------------------------------------------
(* What a handler reports: the calls it made on the player's persisted data, the value
   it returned, and what it saw *)

NoCalls == StoreCtx(NoData)

Ev(op, player, target, ret, st, info) ==
  [op |-> op, player |-> player, target |-> target, ret |-> ret,
   saves |-> st.saves, loads |-> st.loads, info |-> info]

None == [none |-> TRUE]

NoSession == [has |-> FALSE, collectedChests |-> <<>>, lastSwingTime |-> 0]

\* createSessionData()
createSessionData == [has |-> TRUE, collectedChests |-> <<>>, lastSwingTime |-> 0]

-----------------------------------------------------------------------------
(* TreeManager handlers *)

Players == {"p1", "p2"}

SetBlob(p, st) == [persisted EXCEPT ![p] = Blob(st)]

\* chopTree(tree, player), with the onTreeChopped callback index.ts installs:
\* chestManager.trackTreeChop(player, tree.position); sendUIStateUpdate(player)
ChopTree(tree, player, damage) ==
  LET chopped == [tree EXCEPT !.isChopped = TRUE]
      st1 == awardPower(StoreCtx(persisted[player]), tree.powerReward)
      st2 == incrementTreesChopped(st1)
      st3 == sendUIStateUpdate(st2)
      tm == setTimeout([timeouts |-> timeouts, nextId |-> nextId],
                       TREES[tree.treeId].respawnSeconds * 1000,
                       [kind |-> "respawnTree", id |-> tree.id])
  IN /\ trees' = MapSet(trees, chopped)
     /\ persisted' = SetBlob(player, st3)
     /\ treeChopsNearSpawnPoint' =
          trackTreeChop(treeChopsNearSpawnPoint, chests, chestSpawnPoints, player,
                        tree.position)
     /\ timeouts' = tm.timeouts
     /\ nextId' = tm.nextId
     /\ life' = [life EXCEPT ![tree.id] =
                   [dealt |-> @.dealt + damage, hits |-> @.hits + 1,
                    rewards |-> @.rewards + 1, notifs |-> @.notifs + 1]]
     /\ ev' = Ev("damageTree", player, tree.id, TRUE, st3,
                 [powerReward |-> tree.powerReward,
                  before |-> LoadedData(StoreCtx(persisted[player]))])

\* damageTree(treeId, damage, player)
DamageTree(treeId, damage, player, maxChops) ==
  /\ playerSessions[player].has
  /\ LoadedData(StoreCtx(persisted[player])).stats.treesChopped < maxChops
  /\ IF DamageRefused(trees, treeId)
     THEN /\ ev' = Ev("damageTree", player, treeId, FALSE, NoCalls, None)
          /\ UNCHANGED <<trees, persisted, treeChopsNearSpawnPoint, timeouts, nextId, life>>
     ELSE LET tree == CHOOSE e \in MapGet(trees, treeId) : TRUE
              hit == [tree EXCEPT !.currentHp = @ - damage]
          IN IF IsChoppedDown(hit.currentHp)
             THEN ChopTree(hit, player, damage)
             ELSE /\ trees' = MapSet(trees, hit)
                  /\ life' = [life EXCEPT ![treeId] =
                                [@ EXCEPT !.dealt = @ + damage, !.hits = @ + 1]]
                  /\ ev' = Ev("damageTree", player, treeId, FALSE, NoCalls, None)
                  /\ UNCHANGED <<persisted, treeChopsNearSpawnPoint, timeouts, nextId>>
  /\ UNCHANGED <<intervals, now, swung, fires>>
  /\ UNCHANGED <<worldCfg, tickDurationMs, currentTick, treeSpawnPoints, chestSpawnPoints,
                 chests, playerSessions, expect, rdata>>

\* animateTreeFall: the last frame of the wall-clock animation sets tree.entity = null
FallAnimationDone(treeId) ==
  /\ \E e \in MapGet(trees, treeId) : e.isChopped /\ e.entity
  /\ trees' = {IF e.id = treeId THEN [e EXCEPT !.entity = FALSE] ELSE e : e \in trees}
  /\ ev' = Ev("fallAnimation", "-", treeId, FALSE, NoCalls, None)
  /\ UNCHANGED <<intervals, now, swung, fires>>
  /\ UNCHANGED <<worldCfg, tickDurationMs, currentTick, timeouts, nextId, treeSpawnPoints,
                 chestSpawnPoints, chests, treeChopsNearSpawnPoint, playerSessions,
                 persisted, life, expect, rdata>>

\* TreeManager.spawnAll()
TreeSpawnAll ==
  /\ LET tm == spawnAllTrees([trees |-> trees, life |-> life], treeSpawnPoints)
     IN trees' = tm.trees /\ life' = tm.life
  /\ ev' = Ev("treeSpawnAll", "-", "-", FALSE, NoCalls, None)
  /\ UNCHANGED <<intervals, now, swung, fires>>
  /\ UNCHANGED <<worldCfg, tickDurationMs, currentTick, timeouts, nextId, treeSpawnPoints,
                 chestSpawnPoints, chests, treeChopsNearSpawnPoint, playerSessions,
                 persisted, expect, rdata>>

\* TreeManager.cleanup()
TreeCleanup ==
  /\ trees' = {}
  /\ ev' = Ev("treeCleanup", "-", "-", FALSE, NoCalls, None)
  /\ UNCHANGED <<intervals, now, swung, fires>>
  /\ UNCHANGED <<worldCfg, tickDurationMs, currentTick, timeouts, nextId, treeSpawnPoints,
                 chestSpawnPoints, chests, treeChopsNearSpawnPoint, playerSessions,
                 persisted, life, expect, rdata>>

-----------------------------------------------------------------------------
(* ChestManager handlers *)

\* outcomes of rng() tried for a chest tier: they roll common and epic
TierDraws == {0, 800}

\* one draw per chest spawn point; a point with an authored tier never draws
TierDrawFns ==
  {d \in [{chestSpawnPoints[i].id : i \in DOMAIN chestSpawnPoints} -> TierDraws] :
     \A i \in DOMAIN chestSpawnPoints :
        "chestType" \in DOMAIN chestSpawnPoints[i] => d[chestSpawnPoints[i].id] = 0}

\* a test that lets a collected chest be collected again
ChestUnavailableUnknownOnly(cs, chestId) == MapGet(cs, chestId) = {}

\* handleChestInteraction: "if (!chest || chest.isCollected) return"
ChestUnavailable(cs, chestId) ==
  \/ MapGet(cs, chestId) = {}
  \/ \E c \in MapGet(cs, chestId) : c.isCollected

\* a cap test that lets a full inventory take one more
InventoryFullStrict(session) ==
  session.has /\ Len(session.collectedChests) > INVENTORY_CAP_PER_RUN

\* handleChestInteraction: "session && session.collectedChests.length >= cap"
InventoryFull(session) ==
  session.has /\ Len(session.collectedChests) >= INVENTORY_CAP_PER_RUN

\* a collection that leaves the counters of the spawn point as they are
KeepChops(chops, chestId) == chops

\* collectChest: "this.treeChopsNearSpawnPoint.get(chest.id)?.clear()"
ClearChops(chops, chestId) ==
  IF chestId \in DOMAIN chops
  THEN [chops EXCEPT ![chestId] = [q \in DOMAIN @ |-> 0]]
  ELSE chops

\* "spawnPoint?.unlockCostTrees ?? chest.definition.unlockCost"
UnlockCostOf(points, chest) ==
  LET spawnPoint == FindPoint(points, chest.id)
  IN IF spawnPoint # <<>> /\ "unlockCostTrees" \in DOMAIN spawnPoint[1]
     THEN spawnPoint[1].unlockCostTrees
     ELSE CHESTS[chest.tier].unlockCost

\* collectChest(chest, player), with the onChestCollected callback index.ts installs:
\* sendUIStateUpdate(player)
CollectChest(chest, player, st, info) ==
  LET session == playerSessions[player]
      collectedChest == [tier |-> chest.tier, spawnPointId |-> chest.id]
      st1 == sendUIStateUpdate(st)
      tm == setTimeout([timeouts |-> timeouts, nextId |-> nextId],
                       CHESTS[chest.tier].respawnSeconds * 1000,
                       [kind |-> "respawnChest", id |-> chest.id])
  IN /\ chests' = MapSet(chests, [chest EXCEPT !.isCollected = TRUE])
     /\ playerSessions' =
          IF session.has
          THEN [playerSessions EXCEPT ![player].collectedChests = Append(@, collectedChest)]
          ELSE playerSessions
     /\ persisted' = SetBlob(player, st1)
     /\ treeChopsNearSpawnPoint' = ClearChops(treeChopsNearSpawnPoint, chest.id)
     /\ timeouts' = tm.timeouts
     /\ nextId' = tm.nextId
     /\ ev' = Ev("chestInteraction", player, chest.id, "collected", st1, info)

\* handleChestInteraction(chestId, player)
HandleChestInteraction(chestId, player) ==
  /\ playerSessions[player].has
  /\ IF ChestUnavailable(chests, chestId)
     THEN /\ ev' = Ev("chestInteraction", player, chestId, "ignored", NoCalls, None)
          /\ UNCHANGED <<chests, playerSessions, persisted, treeChopsNearSpawnPoint,
                         timeouts, nextId>>
     ELSE LET chest == CHOOSE c \in MapGet(chests, chestId) : TRUE
              st0 == StoreCtx(persisted[player])
              playerData == LoadedData(st0)
              st1 == loadPlayerData(st0)
              nearbyTrees == getPlayerTreeChops(treeChopsNearSpawnPoint, player, chestId)
              unlockCost == UnlockCostOf(chestSpawnPoints, chest)
              effectiveDef == [CHESTS[chest.tier] EXCEPT !.unlockCost = unlockCost]
              verdict == canUnlockChest(effectiveDef, playerData.power, nearbyTrees)
              info == [tier |-> chest.tier, power |-> playerData.power,
                       nearbyTrees |-> nearbyTrees, unlockCost |-> unlockCost,
                       powerGate |-> effectiveDef.powerGate, reason |-> verdict.reason,
                       held |-> Len(playerSessions[player].collectedChests),
                       chopsBefore |-> [q \in Players |->
                          getPlayerTreeChops(treeChopsNearSpawnPoint, q, chestId)]]
          IN IF ~verdict.canUnlock
             THEN /\ ev' = Ev("chestInteraction", player, chestId, "rejected", st1, info)
                  /\ persisted' = SetBlob(player, st1)
                  /\ UNCHANGED <<chests, playerSessions, treeChopsNearSpawnPoint,
                                 timeouts, nextId>>
             ELSE IF InventoryFull(playerSessions[player])
             THEN /\ ev' = Ev("chestInteraction", player, chestId, "full", st1, info)
                  /\ persisted' = SetBlob(player, st1)
                  /\ UNCHANGED <<chests, playerSessions, treeChopsNearSpawnPoint,
                                 timeouts, nextId>>
             ELSE CollectChest(chest, player, st1, info)
  /\ UNCHANGED <<intervals, now, swung, fires>>
  /\ UNCHANGED <<worldCfg, tickDurationMs, currentTick, treeSpawnPoints, trees,
                 chestSpawnPoints, life, expect, rdata>>

\* ChestManager.spawnAll()
ChestSpawnAll ==
  /\ \E draws \in TierDrawFns : chests' = spawnAllChests(chests, chestSpawnPoints, draws)
  /\ ev' = Ev("chestSpawnAll", "-", "-", FALSE, NoCalls, None)
  /\ UNCHANGED <<intervals, now, swung, fires>>
  /\ UNCHANGED <<worldCfg, tickDurationMs, currentTick, timeouts, nextId, treeSpawnPoints,
                 trees, chestSpawnPoints, treeChopsNearSpawnPoint, playerSessions,
                 persisted, life, expect, rdata>>

\* ChestManager.cleanup()
ChestCleanup ==
  /\ chests' = {}
  /\ treeChopsNearSpawnPoint' = EmptyMap
  /\ ev' = Ev("chestCleanup", "-", "-", FALSE, NoCalls, None)
  /\ UNCHANGED <<intervals, now, swung, fires>>
  /\ UNCHANGED <<worldCfg, tickDurationMs, currentTick, timeouts, nextId, treeSpawnPoints,
                 trees, chestSpawnPoints, playerSessions, persisted, life, expect, rdata>>

-----------------------------------------------------------------------------
(* The world loop: one tick, then the TICK_END listener of the timer manager *)

TickBy(step, maxTick) ==
  /\ currentTick + step <= maxTick
  /\ currentTick' = currentTick + step
  /\ \E draws \in TierDrawFns :
       LET w == processTick([trees |-> trees, life |-> life, chests |-> chests,
                             timeouts |-> timeouts, intervals |-> intervals,
                             fires |-> fires, escaped |-> FALSE],
                            currentTick + step, draws)
       IN /\ trees' = w.trees
          /\ life' = w.life
          /\ chests' = w.chests
          /\ timeouts' = w.timeouts
          /\ intervals' = w.intervals
          /\ fires' = w.fires
          /\ ev' = Ev("tick", "-", "-", Len(timeouts) - Len(w.timeouts), NoCalls,
                      [escaped |-> w.escaped, step |-> step])
  /\ UNCHANGED <<now, swung>>
  /\ UNCHANGED <<worldCfg, tickDurationMs, nextId, treeSpawnPoints, chestSpawnPoints,
                 treeChopsNearSpawnPoint, playerSessions, persisted, expect, rdata>>

\* the loop counts one tick at a time
Tick(maxTick) == TickBy(1, maxTick)

-----------------------------------------------------------------------------
(* Player handlers of index.ts *)

\* PlayerEvent.JOINED_WORLD
Join(player) ==
  /\ ~playerSessions[player].has
  /\ LET st0 == StoreCtx(persisted[player])
         playerData == LoadedData(st0)
         st1 == loadPlayerData(st0)
         st2 == IF playerData.equippedAxe \in AxeIds
                   /\ Owned(playerData, playerData.equippedAxe) = 0
                THEN savePlayerData(st1,
                       [ownedAxes |-> Spread(playerData.ownedAxes,
                                             [a \in {playerData.equippedAxe} |-> 1])])
                ELSE st1
         st3 == equipAxe(st2, playerData.equippedAxe)
     IN /\ persisted' = SetBlob(player, st3)
        /\ ev' = Ev("join", player, "-", FALSE, st3, None)
  /\ playerSessions' = [playerSessions EXCEPT ![player] = createSessionData]
  /\ UNCHANGED <<intervals, now, swung, fires>>
  /\ UNCHANGED <<worldCfg, tickDurationMs, currentTick, timeouts, nextId, treeSpawnPoints,
                 trees, chestSpawnPoints, chests, treeChopsNearSpawnPoint, life, expect,
                 rdata>>

\* PlayerEvent.LEFT_WORLD: clearSession(player)
Leave(player) ==
  /\ playerSessions[player].has
  /\ playerSessions' = [playerSessions EXCEPT ![player] = NoSession]
  /\ ev' = Ev("leave", player, "-", FALSE, NoCalls, None)
  /\ UNCHANGED <<intervals, now, swung, fires>>
  /\ UNCHANGED <<worldCfg, tickDurationMs, currentTick, timeouts, nextId, treeSpawnPoints,
                 trees, chestSpawnPoints, chests, treeChopsNearSpawnPoint, persisted, life,
                 expect, rdata>>

\* the chat command "/power <amount>"
CommandPower(player, amount, powerCap) ==
  /\ playerSessions[player].has
  /\ LET st0 == StoreCtx(persisted[player])
         st1 == awardPower(st0, amount)
     IN /\ LoadedData(st0).power + amount >= -MaxDebt
        /\ LoadedData(st0).power + amount <= powerCap
        /\ persisted' = SetBlob(player, st1)
        /\ ev' = Ev("power", player, "-", LoadedData(st1).power, st1, None)
  /\ UNCHANGED <<intervals, now, swung, fires>>
  /\ UNCHANGED <<worldCfg, tickDurationMs, currentTick, timeouts, nextId, treeSpawnPoints,
                 trees, chestSpawnPoints, chests, treeChopsNearSpawnPoint, playerSessions,
                 life, expect, rdata>>

\* the chat command "/give <axe>"
CommandGive(player, axeId) ==
  /\ playerSessions[player].has
  /\ LET st0 == StoreCtx(persisted[player])
         known == axeId \in AxeIds
         g == IF known THEN grantAxe(st0, axeId) ELSE [st |-> st0, granted |-> FALSE]
     IN /\ persisted' = SetBlob(player, g.st)
        /\ ev' = Ev("give", player, axeId,
                    IF ~known THEN "unknown" ELSE IF g.granted THEN "granted" ELSE "owned",
                    g.st, [before |-> LoadedData(st0)])
  /\ UNCHANGED <<intervals, now, swung, fires>>
  /\ UNCHANGED <<worldCfg, tickDurationMs, currentTick, timeouts, nextId, treeSpawnPoints,
                 trees, chestSpawnPoints, chests, treeChopsNearSpawnPoint, playerSessions,
                 life, expect, rdata>>

\* handleEquipAxe(player, axeId)
HandleEquipAxe(player, axeId) ==
  /\ playerSessions[player].has
  /\ LET st0 == StoreCtx(persisted[player])
         playerData == LoadedData(st0)
         st1 == loadPlayerData(st0)
         refused == \/ axeId \notin AxeIds
                    \/ Owned(playerData, axeId) = 0
                    \/ playerData.equippedAxe = axeId
         st2 == IF refused THEN st1 ELSE sendUIStateUpdate(equipAxe(st1, axeId))
     IN /\ persisted' = SetBlob(player, st2)
        /\ ev' = Ev("equipAxe", player, axeId, ~refused, st2, None)
  /\ UNCHANGED <<intervals, now, swung, fires>>
  /\ UNCHANGED <<worldCfg, tickDurationMs, currentTick, timeouts, nextId, treeSpawnPoints,
                 trees, chestSpawnPoints, chests, treeChopsNearSpawnPoint, playerSessions,
                 life, expect, rdata>>

\* what the results of one opening add: shards, and the axes granted
RECURSIVE ShardsOf(_)
ShardsOf(results) ==
  IF results = <<>> THEN 0
  ELSE (IF Head(results).kind = "shards" THEN Head(results).amount ELSE 0)
       + ShardsOf(Tail(results))

AxesOf(results) == {results[i].axeId : i \in {j \in DOMAIN results : results[j].kind = "axe"}}

\* outcomes of rng() tried for an opening: the extra-roll draw, then (rarity, axe) twice
OpenDraws ==
  {<<e, r1, a1, r2, a2>> : e \in {0, 500}, r1 \in {0, 300, 995}, a1 \in {0, 900},
                           r2 \in {0, 300, 995}, a2 \in {0, 900}}

\* handleOpenChest(player, index)
HandleOpenChest(player, index, draws, maxOpens) ==
  /\ LoadedData(StoreCtx(persisted[player])).stats.chestsOpened < maxOpens
  /\ LET session == playerSessions[player]
     IN IF ~session.has \/ index < 0 \/ index >= Len(session.collectedChests)
        THEN /\ ev' = Ev("openChest", player, index, "ignored", NoCalls, None)
             /\ UNCHANGED <<playerSessions, persisted, expect>>
        ELSE LET chest == session.collectedChests[index + 1]
                 st0 == StoreCtx(persisted[player])
                 playerData == LoadedData(st0)
                 st1 == loadPlayerData(st0)
                 results == openChest(chest.tier, playerData, draws)
                 rewarded == applyChestRewards(playerData, results)
                 st2 == savePlayerData(st1, OpenChestPatch(rewarded))
                 st3 == sendUIStateUpdate(st2)
             IN /\ playerSessions' =
                     [playerSessions EXCEPT ![player].collectedChests = Splice(@, index)]
                /\ persisted' = SetBlob(player, st3)
                /\ expect' = [expect EXCEPT ![player] =
                                [axes |-> @.axes \cup AxesOf(results),
                                 shards |-> @.shards + ShardsOf(results),
                                 claimed |-> @.claimed + ShardsOf(results),
                                 opened |-> @.opened + 1]]
                /\ ev' = Ev("openChest", player, index, "opened", st3,
                            [loadsBeforeSave |-> st1.loads, results |-> results,
                             tier |-> chest.tier, before |-> playerData])
  /\ UNCHANGED <<intervals, now, swung, fires>>
  /\ UNCHANGED <<worldCfg, tickDurationMs, currentTick, timeouts, nextId, treeSpawnPoints,
                 trees, chestSpawnPoints, chests, treeChopsNearSpawnPoint, life, rdata>>

-----------------------------------------------------------------------------
(* ChoppingSystem.  A radius is in tenths of a block, a damage bonus in hundredths, an
   area bonus in tenths of a block.  c = [trees, st, chops, timeouts, nextId, life] is
   what one action changes: the trees, the store of the acting player, the chop counters
   of the chests, the timers and the life records. *)

\* AXES[playerData.equippedAxe] ?? AXES.wooden
EquippedAxeOf(data) == IF data.equippedAxe \in AxeIds THEN data.equippedAxe ELSE "wooden"

BonusOf(bonuses, axeId) == IF axeId \in DOMAIN bonuses THEN bonuses[axeId] ELSE 0

\* getEffectiveDamage: Math.round(baseDamage * (1 + bonus))
getEffectiveDamage(playerData, axeId, baseDamage) ==
  (baseDamage * (100 + BonusOf(playerData.axeDamageBonus, axeId)) + 50) \div 100

\* getEffectiveArea: baseArea + bonus
getEffectiveArea(playerData, axeId, baseArea) ==
  baseArea + BonusOf(playerData.axeAreaBonus, axeId)

\* a gate that lets every action through
canSwingAlways(session, data, clock) == session.has

\* canSwing(player): (now - session.lastSwingTime) >= cooldownMs
canSwing(session, data, clock) ==
  /\ session.has
  /\ clock - session.lastSwingTime >= AxeCooldownMs[EquippedAxeOf(data)]

\* a search radius without the cap of the wooden axe
SearchRadiusUncapped(axeId, areaRadius) == areaRadius + 10

\* "axe.id === 'wooden' ? Math.min(baseSearchRadius, 3) : baseSearchRadius"
SearchRadius(axeId, areaRadius) ==
  LET baseSearchRadius == areaRadius + 10
  IN IF axeId = "wooden" THEN (IF baseSearchRadius < 30 THEN baseSearchRadius ELSE 30)
     ELSE baseSearchRadius

\* a radius query that leaves out a tree exactly on the rim
getTreesInRadiusOpen(ts, order, center, radius) ==
  SelectSeq(order, LAMBDA id :
    \E e \in MapGet(ts, id) : ~e.isChopped /\ 100 * DistSq(e.position, center) < radius * radius)

\* the first revision of getTreesInRadius: distance in three dimensions
getTreesInRadius3D(ts, order, center, radius) ==
  SelectSeq(order, LAMBDA id :
    \E e \in MapGet(ts, id) :
      /\ ~e.isChopped
      /\ 100 * (DistSq(e.position, center)
                + (e.position.y - center.y) * (e.position.y - center.y)) <= radius * radius)

\* getTreesInRadius(center, radius): the ids, in the order of the tree map
getTreesInRadius(ts, order, center, radius) ==
  SelectSeq(order, LAMBDA id :
    \E e \in MapGet(ts, id) : ~e.isChopped /\ 100 * DistSq(e.position, center) <= radius * radius)

\* the order of TreeManager.trees: the spawn points in the order they were added
TreeOrder == [i \in DOMAIN treeSpawnPoints |-> treeSpawnPoints[i].id]

\* damageTree(treeId, damage, player) with chopTree and the onTreeChopped callback of
\* index.ts, on c; wasChopped is the value returned
damageTreeOn(c, treeId, damage, player) ==
  IF DamageRefused(c.trees, treeId) THEN [c |-> c, wasChopped |-> FALSE]
  ELSE LET tree == CHOOSE e \in MapGet(c.trees, treeId) : TRUE
           hit == [tree EXCEPT !.currentHp = @ - damage]
           st3 == sendUIStateUpdate(incrementTreesChopped(awardPower(c.st, tree.powerReward)))
           tm == setTimeout([timeouts |-> c.timeouts, nextId |-> c.nextId],
                            TREES[tree.treeId].respawnSeconds * 1000,
                            [kind |-> "respawnTree", id |-> tree.id])
       IN IF IsChoppedDown(hit.currentHp)
          THEN [c |-> [trees |-> MapSet(c.trees, [hit EXCEPT !.isChopped = TRUE]),
                       st |-> st3,
                       chops |-> trackTreeChop(c.chops, chests, chestSpawnPoints, player,
                                               tree.position),
                       timeouts |-> tm.timeouts, nextId |-> tm.nextId,
                       life |-> [c.life EXCEPT ![treeId] =
                                   [dealt |-> @.dealt + damage, hits |-> @.hits + 1,
                                    rewards |-> @.rewards + 1, notifs |-> @.notifs + 1]]],
                wasChopped |-> TRUE]
          ELSE [c |-> [c EXCEPT !.trees = MapSet(c.trees, hit),
                                !.life = [c.life EXCEPT ![treeId] =
                                            [@ EXCEPT !.dealt = @ + damage, !.hits = @ + 1]]],
                wasChopped |-> FALSE]

\* "for (const tree of treesInRange)": damageTree, and trackTreeChop when it was chopped
RECURSIVE DamageAll(_, _, _, _)
DamageAll(c, ids, damage, player) ==
  IF ids = <<>> THEN c
  ELSE LET tree == CHOOSE e \in MapGet(c.trees, Head(ids)) : TRUE
           d == damageTreeOn(c, Head(ids), damage, player)
           c1 == IF d.wasChopped
                 THEN [d.c EXCEPT !.chops = trackTreeChop(@, chests, chestSpawnPoints, player,
                                                          tree.position)]
                 ELSE d.c
       IN DamageAll(c1, Tail(ids), damage, player)

\* treesInRange.sort(by distance)[0]: the nearest, the earlier in the map on a tie
Nearest(ts, ids, center) ==
  LET d(id) == DistSq((CHOOSE e \in MapGet(ts, id) : TRUE).position, center)
      best == CHOOSE i \in DOMAIN ids :
                \A j \in DOMAIN ids : d(ids[i]) < d(ids[j]) \/ (d(ids[i]) = d(ids[j]) /\ i <= j)
  IN <<ids[best]>>

\* what both paths do once the gate has passed and a point is known: recordSwing, the
\* effective stats, the radius query, the damage
Chop(op, player, point, pick(_, _, _), st1, playerData) ==
  LET axe == EquippedAxeOf(playerData)
      damage == getEffectiveDamage(playerData, axe, AxeDamage[axe])
      areaRadius == getEffectiveArea(playerData, axe, AxeAreaRadius[axe])
      searchRadius == SearchRadius(axe, areaRadius)
      treesInRange == getTreesInRadius(trees, TreeOrder, point, searchRadius)
      targets == IF treesInRange = <<>> THEN <<>> ELSE pick(trees, treesInRange, point)
      c == DamageAll([trees |-> trees, st |-> st1, chops |-> treeChopsNearSpawnPoint,
                      timeouts |-> timeouts, nextId |-> nextId, life |-> life],
                     targets, damage, player)
      st2 == IF op = "autoChop" /\ treesInRange # <<>> THEN sendUIStateUpdate(c.st) ELSE c.st
  IN /\ trees' = c.trees
     /\ persisted' = SetBlob(player, st2)
     /\ treeChopsNearSpawnPoint' = c.chops
     /\ timeouts' = c.timeouts
     /\ nextId' = c.nextId
     /\ life' = c.life
     /\ ev' = Ev(op, player, "-", "accepted", st2,
                 [clock |-> now, axe |-> axe, damage |-> damage, point |-> point,
                  searchRadius |-> searchRadius, inRange |-> treesInRange,
                  since |-> now - swung[player].last, nth |-> swung[player].n + 1])

RecordSwing(player) ==
  /\ playerSessions' = [playerSessions EXCEPT ![player].lastSwingTime = now]
  /\ swung' = [swung EXCEPT ![player] = [n |-> @.n + 1, last |-> now]]

Rejected(op, player, ret, st) ==
  /\ ev' = Ev(op, player, "-", ret, st, [clock |-> now])
  /\ persisted' = SetBlob(player, st)
  /\ UNCHANGED <<trees, treeChopsNearSpawnPoint, timeouts, nextId, life>>

AllOf(ts, ids, center) == ids

\* handleSwing(player, raycastHit, origin, direction); target is the point the three
\* fallbacks resolve to, or has = FALSE when none of them gives one
HandleSwing(player, target) ==
  /\ LET st0 == StoreCtx(persisted[player])
         session == playerSessions[player]
         st1 == IF session.has THEN loadPlayerData(st0) ELSE st0
     IN IF ~canSwing(session, LoadedData(st0), now)
        THEN Rejected("swing", player, "rejected", st1) /\ UNCHANGED <<playerSessions, swung>>
        ELSE /\ RecordSwing(player)
             /\ IF ~target.has THEN Rejected("swing", player, "nopoint", loadPlayerData(st1))
                ELSE Chop("swing", player, target.point, AllOf, loadPlayerData(st1),
                          LoadedData(st1))
  /\ UNCHANGED <<intervals, now, fires>>
  /\ UNCHANGED <<worldCfg, tickDurationMs, currentTick, treeSpawnPoints, chestSpawnPoints,
                 chests, expect, rdata>>

\* the "requestChop" UI message: autoChop(player), then sendUIStateUpdate when it
\* returned true; entity is the position of the player entity, or has = FALSE
AutoChop(player, entity) ==
  /\ LET st0 == StoreCtx(persisted[player])
         session == playerSessions[player]
         st1 == IF session.has THEN loadPlayerData(st0) ELSE st0
     IN IF ~canSwing(session, LoadedData(st0), now)
        THEN Rejected("autoChop", player, "rejected", st1)
             /\ UNCHANGED <<playerSessions, swung>>
        ELSE IF ~entity.has
        THEN Rejected("autoChop", player, "noentity", st1)
             /\ UNCHANGED <<playerSessions, swung>>
        ELSE /\ RecordSwing(player)
             /\ Chop("autoChop", player, entity.point, Nearest, loadPlayerData(st1),
                     LoadedData(st1))
  /\ UNCHANGED <<intervals, now, fires>>
  /\ UNCHANGED <<worldCfg, tickDurationMs, currentTick, treeSpawnPoints, chestSpawnPoints,
                 chests, expect, rdata>>

\* wall-clock time passing
AdvanceClock(d, maxClock) ==
  /\ now + d <= ClockStart + maxClock
  /\ now' = now + d
  /\ ev' = Ev("clock", "-", "-", FALSE, NoCalls, None)
  /\ UNCHANGED <<intervals, swung, fires>>
  /\ UNCHANGED <<worldCfg, tickDurationMs, currentTick, timeouts, nextId, treeSpawnPoints,
                 trees, chestSpawnPoints, chests, treeChopsNearSpawnPoint, playerSessions,
                 persisted, life, expect, rdata>>

-----------------------------------------------------------------------------
(* Worlds: the spawn points index.ts hands to the managers, the timestep of the world
   loop, and the persisted data the players arrive with *)

TreeIds == {"t1", "t2"}

Pos(x, z) == [x |-> x, y |-> 0, z |-> z]

\* a returning player: 2000 power, the emerald axe owned and equipped
ReturningBlob ==
  [has |-> TRUE,
   data |-> [DEFAULT_PLAYER_DATA EXCEPT
               !.power = 2000,
               !.ownedAxes = [a \in {"wooden", "emerald"} |-> 1],
               !.equippedAxe = "emerald"]]

ExpectOf(blob) ==
  LET data == LoadedData(StoreCtx(blob))
  IN [axes |-> {a \in DOMAIN data.ownedAxes : data.ownedAxes[a] > 0},
      shards |-> data.shards, claimed |-> data.stats.totalShardsClaimed,
      opened |-> data.stats.chestsOpened]

\* startServer: addSpawnPoints and spawnAll on both managers, no player yet
InitWorld(name, tickMs, treePoints, chestPoints, blobs) ==
  /\ worldCfg = name
  /\ tickDurationMs = tickMs
  /\ currentTick = 0
  /\ timeouts = <<>>
  /\ intervals = <<>>
  /\ nextId = 1
  /\ now = ClockStart
  /\ swung = [q \in Players |-> [n |-> 0, last |-> 0]]
  /\ fires = EmptyMap
  /\ treeSpawnPoints = treePoints
  /\ chestSpawnPoints = chestPoints
  /\ LET tm == spawnAllTrees([trees |-> {}, life |-> [t \in TreeIds |-> FreshLife]],
                             treePoints)
     IN trees = tm.trees /\ life = tm.life
  /\ \E draws \in TierDrawFns : chests = spawnAllChests({}, chestPoints, draws)
  /\ treeChopsNearSpawnPoint =
       [id \in {chestPoints[i].id : i \in DOMAIN chestPoints} |-> [q \in Players |-> 0]]
  /\ playerSessions = [q \in Players |-> NoSession]
  /\ persisted = blobs
  /\ ev = Ev("init", "-", "-", FALSE, NoCalls, None)
  /\ expect = [q \in Players |-> ExpectOf(blobs[q])]

\* the grove: one player, an oak beside two chests; c1 is authored, c2 has neither an
\* authored tier nor an authored radius
GroveTreePoints ==
  <<[id |-> "t1", position |-> Pos(3, 4), treeId |-> "oak_small"]>>

GroveChestPoints ==
  <<[id |-> "c1", position |-> Pos(0, 0), chestType |-> "common", nearbyRadius |-> 5,
     unlockCostTrees |-> 1],
    [id |-> "c2", position |-> Pos(20, 0), unlockCostTrees |-> 2]>>

FirstTimers == [q \in Players |-> NoData]

Init ==
  /\ InitWorld("grove", 75000, GroveTreePoints, GroveChestPoints, FirstTimers)
  /\ rdata = None

Next ==
  \/ Join("p1")
  \/ DamageTree("t1", 80, "p1", MaxChops)
  \/ FallAnimationDone("t1")
  \/ Tick(MaxTick)
  \/ \E c \in {"c1", "c2", "c9"} : HandleChestInteraction(c, "p1")
  \/ TreeSpawnAll
  \/ TreeCleanup
  \/ ChestSpawnAll
  \/ ChestCleanup

Spec == Init /\ [][Next]_vars

\* the grove where nothing calls spawnAll again: once a manager is cleaned up, only its
\* pending respawn timers are left to act on it
InitCleared ==
  /\ InitWorld("cleared", 75000, GroveTreePoints, GroveChestPoints, FirstTimers)
  /\ rdata = None

NextCleared ==
  \/ Join("p1")
  \/ DamageTree("t1", 80, "p1", MaxChops)
  \/ FallAnimationDone("t1")
  \/ Tick(MaxTick)
  \/ \E c \in {"c1", "c2"} : HandleChestInteraction(c, "p1")
  \/ TreeCleanup
  \/ ChestCleanup

SpecCleared == InitCleared /\ [][NextCleared]_vars

\* the pair: two players, a fern inside the radius of the chest and one outside it
PairTreePoints ==
  <<[id |-> "t1", position |-> Pos(3, 4), treeId |-> "fern"],
    [id |-> "t2", position |-> Pos(10, 0), treeId |-> "fern"]>>

PairChestPoints ==
  <<[id |-> "c1", position |-> Pos(0, 0), chestType |-> "common", nearbyRadius |-> 5,
     unlockCostTrees |-> 1]>>

InitPair ==
  /\ InitWorld("pair", 75000, PairTreePoints, PairChestPoints, FirstTimers)
  /\ rdata = None

NextPair ==
  \/ \E p \in Players : Join(p)
  \/ \E p \in Players : Leave(p)
  \/ \E p \in Players, t \in TreeIds : DamageTree(t, 80, p, MaxChops)
  \/ \E t \in TreeIds : FallAnimationDone(t)
  \/ Tick(MaxTick)
  \/ \E p \in Players : HandleChestInteraction("c1", p)

SpecPair == InitPair /\ [][NextPair]_vars

\* the scenario world: one player, a 140 HP oak within the authored radius of a common
\* chest with the authored cost of its tier, as generateChestSpawnPoints writes it
ScenarioTreePoints ==
  <<[id |-> "t1", position |-> Pos(3, 4), treeId |-> "oak_small"]>>

ScenarioChestPoints ==
  <<[id |-> "c1", position |-> Pos(0, 0), chestType |-> "common", nearbyRadius |-> 22,
     unlockCostTrees |-> CHESTS.common.unlockCost]>>

InitScenario ==
  /\ InitWorld("scenario", 75000, ScenarioTreePoints, ScenarioChestPoints, FirstTimers)
  /\ rdata = None

NextScenario ==
  \/ Join("p1")
  \/ \E d \in {AxeDamage.wooden, AxeDamage.ruby} :
       DamageTree("t1", d, "p1", MaxChopsScenario)
  \/ FallAnimationDone("t1")
  \/ Tick(MaxTickScenario)
  \/ HandleChestInteraction("c1", "p1")
  \/ CommandPower("p1", -63, PowerCap)

SpecScenario == InitScenario /\ [][NextScenario]_vars

\* the cap world: one player and an epic chest that respawns every tick and costs no chops
CapChestPoints ==
  <<[id |-> "c1", position |-> Pos(0, 0), chestType |-> "epic", nearbyRadius |-> 22,
     unlockCostTrees |-> 0]>>

InitCap ==
  /\ InitWorld("cap", 360000, <<>>, CapChestPoints, FirstTimers)
  /\ rdata = None

NextCap ==
  \/ Join("p1")
  \/ Leave("p1")
  \/ Tick(MaxTickCap)
  \/ \E c \in {"c1", "c9"} : HandleChestInteraction(c, "p1")
  \/ CommandPower("p1", 2000, PowerCap)
  \/ HandleOpenChest("p1", 0, <<500, 0, 0, 0, 0>>, MaxOpens)

SpecCap == InitCap /\ [][NextCap]_vars

\* the vault: a returning player who owns the emerald axe, and an epic chest that costs
\* no chops
InitVault ==
  /\ InitWorld("vault", 360000, <<>>, CapChestPoints,
               [q \in Players |-> IF q = "p1" THEN ReturningBlob ELSE NoData])
  /\ rdata = None

NextVault ==
  \/ Join("p1")
  \/ \E a \in {"wooden", "emerald", "stone"} : HandleEquipAxe("p1", a)
  \/ Tick(MaxTick)
  \/ HandleChestInteraction("c1", "p1")
  \/ \E i \in {0, 1}, draws \in OpenDraws : HandleOpenChest("p1", i, draws, MaxOpens)

SpecVault == InitVault /\ [][NextVault]_vars

\* the armoury: the vault with a player who holds three wooden axes, the /give command,
\* and openings that roll the same new axe twice
HoarderBlob ==
  [has |-> TRUE,
   data |-> [DEFAULT_PLAYER_DATA EXCEPT
               !.power = 2000,
               !.ownedAxes = [a \in {"wooden", "emerald"} |->
                                IF a = "wooden" THEN 3 ELSE 1],
               !.equippedAxe = "emerald"]]

GrantDraws == {<<0, 300, 900, 300, 900>>, <<0, 0, 0, 300, 900>>, <<500, 995, 0, 0, 0>>}

InitArmoury ==
  /\ InitWorld("armoury", 360000, <<>>, CapChestPoints,
               [q \in Players |-> IF q = "p1" THEN HoarderBlob ELSE NoData])
  /\ rdata = None

NextArmoury ==
  \/ Join("p1")
  \/ \E a \in {"wooden", "stone", "iron", "bogus"} : CommandGive("p1", a)
  \/ \E a \in {"wooden", "stone"} : HandleEquipAxe("p1", a)
  \/ Tick(MaxTick)
  \/ HandleChestInteraction("c1", "p1")
  \/ \E draws \in GrantDraws : HandleOpenChest("p1", 0, draws, MaxOpens)

SpecArmoury == InitArmoury /\ [][NextArmoury]_vars

\* the orchard: two ferns 3 and 4 blocks from the origin, and a player who holds a
\* wooden axe with ten area upgrades and a damage upgrade, and a sapphire axe
OrchardTreePoints ==
  <<[id |-> "t1", position |-> Pos(3, 0), treeId |-> "fern"],
    [id |-> "t2", position |-> Pos(0, 4), treeId |-> "fern"]>>

ChopperBlob ==
  [has |-> TRUE,
   data |-> [DEFAULT_PLAYER_DATA EXCEPT
               !.ownedAxes = [a \in {"wooden", "sapphire"} |-> 1],
               !.axeAreaBonus = [a \in {"wooden"} |-> 20],
               !.axeDamageBonus = [a \in {"wooden"} |-> 50]]]

SwingPoints == {[has |-> TRUE, point |-> Pos(0, 0)], [has |-> TRUE, point |-> Pos(0, 1)],
                [has |-> FALSE]}

InitOrchard ==
  /\ InitWorld("orchard", 75000, OrchardTreePoints, ScenarioChestPoints,
               [q \in Players |-> IF q = "p1" THEN ChopperBlob ELSE NoData])
  /\ rdata = None

NextOrchard ==
  \/ Join("p1")
  \/ \E d \in {300, 400} : AdvanceClock(d, MaxClock)
  \/ \E a \in {"wooden", "sapphire"} : HandleEquipAxe("p1", a)
  \/ \E target \in SwingPoints : HandleSwing("p1", target)
  \/ \E entity \in SwingPoints : AutoChop("p1", entity)

SpecOrchard == InitOrchard /\ [][NextOrchard]_vars

-----------------------------------------------------------------------------
(* repairPlayerData on snapshots as the host may hand them over: a field holds any
   JavaScript value.  A value is a record: a finite number [t |-> "num", v |-> n], NaN,
   Infinity, a non-numeric string, or null; a missing key is undefined. *)

Num(n) == [t |-> "num", v |-> n]

NaN == [t |-> "nan"]

Infinity == [t |-> "inf"]

Str == [t |-> "str"]

Null == [t |-> "null"]

Undefined == [t |-> "undefined"]

\* obj[key]
Prop(obj, key) == IF key \in DOMAIN obj THEN obj[key] ELSE Undefined

\* x ?? 0
OrZero(x) == IF x.t \in {"null", "undefined"} THEN Num(0) ELSE x

\* x < n for a number n: false for NaN, for Infinity and for a string that is not a number
JsLess(x, n) ==
  \/ x.t = "num" /\ x.v < n
  \/ x.t = "null" /\ 0 < n

\* typeof n === "number" && n >= 0 && Number.isFinite(n)
IsCount(x) == x.t = "num" /\ x.v >= 0

\* typeof x !== "number" || !Number.isFinite(x) || x < 0
BadNumber(x) == ~(x.t = "num" /\ x.v >= 0)

\* Math.max(0, Number(x) || 0)
ClampNumber(x) == IF x.t = "num" /\ x.v > 0 THEN x ELSE IF x.t = "inf" THEN x ELSE Num(0)

\* !x: undefined, null, 0 and NaN are falsy
Falsy(x) == x.t \in {"undefined", "null", "nan"} \/ (x.t = "num" /\ x.v = 0)

\* repairPlayerData(data): the snapshot as mutated, and the updates returned
repairPlayerData(data) ==
  LET validEquipped == data.equippedAxe \in AxeIds
      equipped == IF validEquipped THEN data.equippedAxe ELSE "wooden"
      fixOwned == JsLess(OrZero(Prop(data.ownedAxes, equipped)), 1)
      owned1 == IF fixOwned THEN Spread(data.ownedAxes, [a \in {equipped} |-> Num(1)])
                ELSE data.ownedAxes
      kept == {id \in DOMAIN owned1 : id \in AxeIds /\ IsCount(OrZero(owned1[id]))}
      sanitized0 == [id \in kept |-> OrZero(owned1[id])]
      sanitized == IF Falsy(Prop(sanitized0, "wooden")) \/ JsLess(Prop(sanitized0, "wooden"), 1)
                   THEN Spread(sanitized0, [a \in {"wooden"} |-> Num(1)])
                   ELSE sanitized0
      replaceOwned == DOMAIN sanitized # DOMAIN owned1
      owned2 == IF replaceOwned THEN sanitized ELSE owned1
      badPower == BadNumber(data.power)
      badShards == BadNumber(data.shards)
      badStats == \E k \in DOMAIN data.stats : BadNumber(data.stats[k])
      stats2 == IF badStats THEN [k \in DOMAIN data.stats |-> ClampNumber(data.stats[k])]
                ELSE data.stats
      updates ==
        [k \in (IF validEquipped THEN {} ELSE {"equippedAxe"})
               \cup (IF fixOwned \/ replaceOwned THEN {"ownedAxes"} ELSE {})
               \cup (IF badPower THEN {"power"} ELSE {})
               \cup (IF badShards THEN {"shards"} ELSE {})
               \cup (IF badStats THEN {"stats"} ELSE {}) |->
           CASE k = "equippedAxe" -> "wooden"
             [] k = "ownedAxes" -> owned2
             [] k = "power" -> Num(0)
             [] k = "shards" -> Num(0)
             [] k = "stats" -> stats2]
  IN [data |-> [equippedAxe |-> equipped, ownedAxes |-> owned2,
                power |-> IF badPower THEN Num(0) ELSE data.power,
                shards |-> IF badShards THEN Num(0) ELSE data.shards,
                stats |-> stats2],
      updates |-> updates]

\* the values tried for an owned count, and for power and shards
CountValues == {Num(-1), Num(0), Num(1), Num(3), NaN, Infinity, Str, Null}

OwnedInputs ==
  UNION {[keys -> CountValues] : keys \in SUBSET {"wooden", "stone", "bogus"}}

RepairInputs ==
  {[equippedAxe |-> e, ownedAxes |-> o, power |-> pw, shards |-> sh,
    stats |-> [treesChopped |-> tc, chestsOpened |-> Num(0), totalShardsClaimed |-> Num(0)]] :
     e \in {"wooden", "stone", "bogus"}, o \in OwnedInputs,
     pw \in {Num(5), Num(-1), Str}, sh \in {Num(0), NaN}, tc \in {Num(2), Null}}

InitRepair ==
  /\ InitWorld("repair", 75000, <<>>, <<>>, FirstTimers)
  /\ \E d \in RepairInputs : rdata = [phase |-> "input", data |-> d]

Repair ==
  /\ rdata.phase = "input"
  /\ LET r == repairPlayerData(rdata.data)
     IN rdata' = [phase |-> "repaired", input |-> rdata.data, data |-> r.data,
                  updates |-> r.updates]
  /\ ev' = Ev("repair", "-", "-", FALSE, NoCalls, None)
  /\ UNCHANGED <<intervals, now, swung, fires>>
  /\ UNCHANGED <<worldCfg, tickDurationMs, currentTick, timeouts, nextId, treeSpawnPoints,
                 trees, chestSpawnPoints, chests, treeChopsNearSpawnPoint, playerSessions,
                 persisted, life, expect>>

\* a second repairPlayerData(data) on the snapshot the first call left
RepairAgain ==
  /\ rdata.phase = "repaired"
  /\ LET r == repairPlayerData(rdata.data)
     IN rdata' = [phase |-> "again", input |-> rdata.input, data |-> rdata.data,
                  updates |-> rdata.updates, data2 |-> r.data, updates2 |-> r.updates]
  /\ ev' = Ev("repair", "-", "-", TRUE, NoCalls, None)
  /\ UNCHANGED <<intervals, now, swung, fires>>
  /\ UNCHANGED <<worldCfg, tickDurationMs, currentTick, timeouts, nextId, treeSpawnPoints,
                 trees, chestSpawnPoints, chests, treeChopsNearSpawnPoint, playerSessions,
                 persisted, life, expect>>

NextRepair == Repair \/ RepairAgain

SpecRepair == InitRepair /\ [][NextRepair]_vars

-----------------------------------------------------------------------------
(* rollWeighted on its own: a table with one key of weight 1 among keys of weight 0, and
   every outcome of rng() in thousandths *)

\* the table of len keys whose key at pos has weight 1
OneHot(len, pos) == [i \in 1..len |-> IF i = pos THEN 1 ELSE 0]

RollInputs ==
  UNION {{[weights |-> OneHot(len, pos), key |-> pos, k |-> k] :
            pos \in 1..len, k \in 0..999} : len \in 1..RollTableLen}

InitRoll ==
  /\ InitWorld("roll", 75000, <<>>, <<>>, FirstTimers)
  /\ \E d \in RollInputs : rdata = [phase |-> "input", data |-> d]

Roll ==
  /\ rdata.phase = "input"
  /\ rdata' = [phase |-> "rolled", input |-> rdata.data,
               key |-> rollWeighted(rdata.data.weights, rdata.data.k)]
  /\ ev' = Ev("rollWeighted", "-", "-", FALSE, NoCalls, None)
  /\ UNCHANGED <<intervals, now, swung, fires>>
  /\ UNCHANGED <<worldCfg, tickDurationMs, currentTick, timeouts, nextId, treeSpawnPoints,
                 trees, chestSpawnPoints, chests, treeChopsNearSpawnPoint, playerSessions,
                 persisted, life, expect>>

NextRoll == Roll

SpecRoll == InitRoll /\ [][NextRoll]_vars

-----------------------------------------------------------------------------
(* World generation: generateChestSpawnPoints on its own.  Its argument is given as
   the order the shuffle left it in; a grid key "gx,gz" is the pair <<gx, gz>>. *)

\* "Assign tiers in order (mythic/epic first to get best spots)"
tierOrder == <<"mythic", "epic", "rare", "common">>

\* targets that round the share of a tier up
tierTargetsCeil(targetCount) ==
  [common |-> CeilDiv(targetCount * 46, 100), rare |-> CeilDiv(targetCount * 33, 100),
   epic |-> CeilDiv(targetCount * 16, 100), mythic |-> CeilDiv(targetCount * 5, 100)]

\* Math.floor(targetCount * 0.46) and so on
tierTargets(targetCount) ==
  [common |-> (targetCount * 46) \div 100, rare |-> (targetCount * 33) \div 100,
   epic |-> (targetCount * 16) \div 100, mythic |-> (targetCount * 5) \div 100]

\* `${Math.floor(pos.x / spacing)},${Math.floor(pos.z / spacing)}`
GridKey(pos, spacing) == <<pos.x \div spacing, pos.z \div spacing>>

\* the inner loop "for (const pos of shuffled)" for one tier; g = [points, usedSpots,
\* tierCounts, id]
RECURSIVE PlaceTier(_, _, _, _)
PlaceTier(g, tier, target, rest) ==
  IF rest = <<>> \/ g.tierCounts[tier] >= target THEN g
  ELSE LET pos == Head(rest)
           spacing == IF tier = "common" THEN 8 ELSE 12
           gridKey == GridKey(pos, spacing)
           point == [id |-> g.id,
                     position |-> [x |-> pos.x, y |-> pos.y + 2, z |-> pos.z],
                     chestType |-> tier, nearbyRadius |-> NEARBY_TREES_RADIUS,
                     unlockCostTrees |-> CHESTS[tier].unlockCost]
           g1 == IF gridKey \in g.usedSpots THEN g
                 ELSE [points |-> Append(g.points, point),
                       usedSpots |-> g.usedSpots \cup {gridKey},
                       tierCounts |-> [g.tierCounts EXCEPT ![tier] = @ + 1],
                       id |-> g.id + 1]
       IN PlaceTier(g1, tier, target, Tail(rest))

RECURSIVE PlaceTiers(_, _, _, _)
PlaceTiers(g, tiers, targets, shuffled) ==
  IF tiers = <<>> THEN g
  ELSE PlaceTiers(PlaceTier(g, Head(tiers), targets[Head(tiers)], shuffled),
                  Tail(tiers), targets, shuffled)

\* generateChestSpawnPoints(positions, targetCount), positions already shuffled
generateChestSpawnPoints(shuffled, targetCount) ==
  PlaceTiers([points |-> <<>>, usedSpots |-> {},
              tierCounts |-> [common |-> 0, rare |-> 0, epic |-> 0, mythic |-> 0],
              id |-> 0],
             tierOrder, tierTargets(targetCount), shuffled)

\* candidate positions 24 blocks apart, and three orders a shuffle can leave them in
Candidates == [i \in 1..CandidateCount |-> [x |-> 24 * (i - 1), y |-> 10, z |-> 0]]

ShuffledOrders ==
  {Candidates,
   [i \in 1..CandidateCount |-> Candidates[CandidateCount + 1 - i]],
   [i \in 1..CandidateCount |-> Candidates[((i * 7) % CandidateCount) + 1]]}

InitWorldGen ==
  /\ InitWorld("worldgen", 75000, <<>>, <<>>, FirstTimers)
  /\ \E order \in ShuffledOrders, n \in 0..MaxTargetCount :
       rdata = [phase |-> "input", shuffled |-> order, targetCount |-> n]

Generate ==
  /\ rdata.phase = "input"
  /\ LET g == generateChestSpawnPoints(rdata.shuffled, rdata.targetCount)
     IN rdata' = [phase |-> "generated", shuffled |-> rdata.shuffled,
                  targetCount |-> rdata.targetCount, points |-> g.points,
                  tierCounts |-> g.tierCounts]
  /\ ev' = Ev("generateChestSpawnPoints", "-", "-", FALSE, NoCalls, None)
  /\ UNCHANGED <<intervals, now, swung, fires>>
  /\ UNCHANGED <<worldCfg, tickDurationMs, currentTick, timeouts, nextId, treeSpawnPoints,
                 trees, chestSpawnPoints, chests, treeChopsNearSpawnPoint, playerSessions,
                 persisted, life, expect>>

NextWorldGen == Generate

SpecWorldGen == InitWorldGen /\ [][NextWorldGen]_vars

-----------------------------------------------------------------------------
(* World generation: generateTreeSpawnPoints, and generateWorldSpawnPoints that
   feeds it the generated chests.  A position key "x,z" is the pair <<x, z>>; the
   generation state g = [points, usedPositions, excluded] carries, besides the code's
   two collections, the placement phases in which the spawn exclusion turned a
   candidate down. *)

\* DEFAULT_CONFIG
DEFAULT_CONFIG == [outerRingSpacing |-> 2, clusterSpacing |-> 2, outerRingDistance |-> 8]

\* TREES_PER_CHEST
TREES_PER_CHEST ==
  [common |-> [min |-> 12, target |-> 18], rare |-> [min |-> 25, target |-> 35],
   epic |-> [min |-> 45, target |-> 65], mythic |-> [min |-> 60, target |-> 80]]

\* "const SPAWN_EXCLUSION_RADIUS_SQ = 8 * 8"
SPAWN_EXCLUSION_RADIUS_SQ == 64

\* getMapBounds(positions)
getMapBounds(positions) ==
  LET xs == {positions[i].x : i \in DOMAIN positions}
      zs == {positions[i].z : i \in DOMAIN positions}
  IN [minX |-> CHOOSE m \in xs : \A v \in xs : m <= v,
      maxX |-> CHOOSE m \in xs : \A v \in xs : m >= v,
      minZ |-> CHOOSE m \in zs : \A v \in zs : m <= v,
      maxZ |-> CHOOSE m \in zs : \A v \in zs : m >= v]

\* isNearEdge(pos, bounds, distance)
isNearEdge(pos, bounds, distance) ==
  \/ pos.x <= bounds.minX + distance
  \/ pos.x >= bounds.maxX - distance
  \/ pos.z <= bounds.minZ + distance
  \/ pos.z >= bounds.maxZ - distance

\* getTreeYOffset(treeId)
getTreeYOffset(treeId) ==
  IF treeId \in {"oak_small", "pine_small"} THEN 3
  ELSE IF treeId \in {"oak_medium", "pine_medium"} THEN 4
  ELSE 5

\* chooseTreeForBiome(biome, rng), rand in thousandths
chooseTreeForBiome(biome, rand) ==
  IF biome = "pine"
  THEN (IF rand < 400 THEN "pine_small" ELSE IF rand < 750 THEN "pine_medium"
        ELSE "pine_big")
  ELSE IF biome = "sand" THEN "palm"
  ELSE (IF rand < 400 THEN "oak_small" ELSE IF rand < 750 THEN "oak_medium"
        ELSE "oak_big")

\* positionMap: "Index positions by x,z for quick lookup"; a later position replaces
\* an earlier one with the same key
IndexPositions(positions) ==
  [k \in {<<positions[i].x, positions[i].z>> : i \in DOMAIN positions} |->
     positions[CHOOSE i \in DOMAIN positions :
                 /\ <<positions[i].x, positions[i].z>> = k
                 /\ \A j \in DOMAIN positions :
                      j > i => <<positions[j].x, positions[j].z>> # k]]

\* a spawn exclusion that leaves the rim of the circle open
tryAddTreeOpenRim(g, positionMap, x, z, reason, rolls) ==
  LET key == <<x, z>>
  IN IF key \in g.usedPositions \/ key \notin DOMAIN positionMap
     THEN [g |-> g, ok |-> FALSE]
     ELSE IF x * x + z * z < SPAWN_EXCLUSION_RADIUS_SQ
     THEN [g |-> [g EXCEPT !.excluded = @ \cup {reason}], ok |-> FALSE]
     ELSE LET pos == positionMap[key]
              treeType == chooseTreeForBiome(pos.biome,
                                             rolls[(Len(g.points) % Len(rolls)) + 1])
          IN [g |-> [g EXCEPT
                       !.usedPositions = @ \cup {key},
                       !.points = Append(@, [id |-> Len(g.points),
                                             position |-> [x |-> pos.x,
                                                           y |-> pos.y
                                                                 + getTreeYOffset(treeType),
                                                           z |-> pos.z],
                                             treeId |-> treeType])],
              ok |-> TRUE]

\* tryAddTree(x, z, reason); the rng of chooseTreeForBiome is the stream rolls, read
\* once for each tree added
tryAddTree(g, positionMap, x, z, reason, rolls) ==
  LET key == <<x, z>>
  IN IF key \in g.usedPositions \/ key \notin DOMAIN positionMap
     THEN [g |-> g, ok |-> FALSE]
     ELSE IF x * x + z * z <= SPAWN_EXCLUSION_RADIUS_SQ
     THEN [g |-> [g EXCEPT !.excluded = @ \cup {reason}], ok |-> FALSE]
     ELSE LET pos == positionMap[key]
              treeType == chooseTreeForBiome(pos.biome,
                                             rolls[(Len(g.points) % Len(rolls)) + 1])
          IN [g |-> [g EXCEPT
                       !.usedPositions = @ \cup {key},
                       !.points = Append(@, [id |-> Len(g.points),
                                             position |-> [x |-> pos.x,
                                                           y |-> pos.y
                                                                 + getTreeYOffset(treeType),
                                                           z |-> pos.z],
                                             treeId |-> treeType])],
              ok |-> TRUE]

\* the values of "for (let v = from; v <= to; v += step)"
LoopValues(from, to, step) ==
  IF to < from THEN <<>>
  ELSE [i \in 1..((to - from) \div step + 1) |-> from + (i - 1) * step]

\* tryAddTree on each candidate <<x, z>> in turn
RECURSIVE TryEach(_, _, _, _, _)
TryEach(g, candidates, positionMap, reason, rolls) ==
  IF candidates = <<>> THEN g
  ELSE LET t == tryAddTree(g, positionMap, Head(candidates)[1], Head(candidates)[2],
                           reason, rolls)
       IN IF t.g = g THEN TryEach(g, Tail(candidates), positionMap, reason, rolls)
          ELSE TryEach(t.g, Tail(candidates), positionMap, reason, rolls)

\* phase 1, first loop: for each x the top edge, then the bottom edge
RECURSIVE OuterRingColumns(_, _, _, _, _, _)
OuterRingColumns(g, xs, bounds, config, positionMap, rolls) ==
  IF xs = <<>> THEN g
  ELSE LET x == Head(xs)
           top == LoopValues(bounds.minZ, bounds.minZ + config.outerRingDistance,
                             config.outerRingSpacing)
           bottom == LoopValues(bounds.maxZ - config.outerRingDistance, bounds.maxZ,
                                config.outerRingSpacing)
           zs == top \o bottom
           g1 == TryEach(g, [i \in DOMAIN zs |-> <<x, zs[i]>>], positionMap,
                         "outer-ring", rolls)
       IN IF g1 = g THEN OuterRingColumns(g, Tail(xs), bounds, config, positionMap, rolls)
          ELSE OuterRingColumns(g1, Tail(xs), bounds, config, positionMap, rolls)

\* phase 1, second loop: for each z the left edge, then the right edge
RECURSIVE OuterRingRows(_, _, _, _, _, _)
OuterRingRows(g, zs, bounds, config, positionMap, rolls) ==
  IF zs = <<>> THEN g
  ELSE LET z == Head(zs)
           left == LoopValues(bounds.minX, bounds.minX + config.outerRingDistance,
                              config.outerRingSpacing)
           right == LoopValues(bounds.maxX - config.outerRingDistance, bounds.maxX,
                               config.outerRingSpacing)
           xs == left \o right
           g1 == TryEach(g, [i \in DOMAIN xs |-> <<xs[i], z>>], positionMap,
                         "outer-ring", rolls)
       IN IF g1 = g THEN OuterRingRows(g, Tail(zs), bounds, config, positionMap, rolls)
          ELSE OuterRingRows(g1, Tail(zs), bounds, config, positionMap, rolls)

\* <<Math.round(r * Math.cos(angle)), Math.round(r * Math.sin(angle))>> for
\* angle = (i / steps) * 2 * Math.PI, i = 0 .. steps - 1, where
\* steps = Math.max(8, Math.floor(2 * Math.PI * r / spacing)) and spacing is the
\* clusterSpacing 2 of DEFAULT_CONFIG
CircleOffsets(r) ==
  CASE   r = 2 ->
     <<<<2, 0>>, <<1, 1>>, <<0, 2>>, <<-1, 1>>, <<-2, 0>>, <<-1, -1>>, <<0, -2>>, <<1, -1>>>>
  []   r = 4 ->
     <<<<4, 0>>, <<3, 2>>, <<2, 3>>, <<0, 4>>, <<-2, 3>>, <<-3, 2>>, <<-4, 0>>, <<-3, -2>>,
      <<-2, -3>>, <<0, -4>>, <<2, -3>>, <<3, -2>>>>
  []   r = 6 ->
     <<<<6, 0>>, <<6, 2>>, <<5, 4>>, <<3, 5>>, <<1, 6>>, <<-1, 6>>, <<-3, 5>>, <<-5, 4>>,
      <<-6, 2>>, <<-6, 0>>, <<-6, -2>>, <<-5, -4>>, <<-3, -5>>, <<-1, -6>>, <<1, -6>>,
      <<3, -5>>, <<5, -4>>, <<6, -2>>>>
  []   r = 8 ->
     <<<<8, 0>>, <<8, 2>>, <<7, 4>>, <<6, 5>>, <<4, 7>>, <<2, 8>>, <<1, 8>>, <<-1, 8>>,
      <<-3, 7>>, <<-5, 6>>, <<-6, 5>>, <<-7, 3>>, <<-8, 1>>, <<-8, -1>>, <<-7, -3>>,
      <<-6, -5>>, <<-5, -6>>, <<-3, -7>>, <<-1, -8>>, <<1, -8>>, <<2, -8>>, <<4, -7>>,
      <<6, -5>>, <<7, -4>>, <<8, -2>>>>
  []   r = 10 ->
     <<<<10, 0>>, <<10, 2>>, <<9, 4>>, <<8, 6>>, <<7, 7>>, <<5, 8>>, <<3, 9>>, <<2, 10>>,
      <<-1, 10>>, <<-3, 10>>, <<-4, 9>>, <<-6, 8>>, <<-8, 7>>, <<-9, 5>>, <<-10, 3>>,
      <<-10, 1>>, <<-10, -1>>, <<-10, -3>>, <<-9, -5>>, <<-8, -7>>, <<-6, -8>>, <<-4, -9>>,
      <<-3, -10>>, <<-1, -10>>, <<2, -10>>, <<3, -9>>, <<5, -8>>, <<7, -7>>, <<8, -6>>,
      <<9, -4>>, <<10, -2>>>>
  []   r = 12 ->
     <<<<12, 0>>, <<12, 2>>, <<11, 4>>, <<10, 6>>, <<9, 8>>, <<8, 9>>, <<6, 10>>, <<4, 11>>,
      <<3, 12>>, <<1, 12>>, <<-2, 12>>, <<-4, 11>>, <<-5, 11>>, <<-7, 10>>, <<-9, 8>>,
      <<-10, 7>>, <<-11, 5>>, <<-12, 3>>, <<-12, 1>>, <<-12, -1>>, <<-12, -3>>,
      <<-11, -5>>, <<-10, -7>>, <<-9, -8>>, <<-7, -10>>, <<-5, -11>>, <<-4, -11>>,
      <<-2, -12>>, <<1, -12>>, <<3, -12>>, <<4, -11>>, <<6, -10>>, <<8, -9>>, <<9, -8>>,
      <<10, -6>>, <<11, -4>>, <<12, -2>>>>
  []   r = 14 ->
     <<<<14, 0>>, <<14, 2>>, <<13, 4>>, <<13, 6>>, <<12, 8>>, <<10, 9>>, <<9, 11>>,
      <<7, 12>>, <<5, 13>>, <<4, 14>>, <<2, 14>>, <<-1, 14>>, <<-3, 14>>, <<-5, 13>>,
      <<-6, 12>>, <<-8, 11>>, <<-10, 10>>, <<-11, 9>>, <<-12, 7>>, <<-13, 5>>, <<-14, 3>>,
      <<-14, 1>>, <<-14, -1>>, <<-14, -3>>, <<-13, -5>>, <<-12, -7>>, <<-11, -9>>,
      <<-10, -10>>, <<-8, -11>>, <<-6, -12>>, <<-5, -13>>, <<-3, -14>>, <<-1, -14>>,
      <<2, -14>>, <<4, -14>>, <<5, -13>>, <<7, -12>>, <<9, -11>>, <<10, -9>>, <<12, -8>>,
      <<13, -6>>, <<13, -4>>, <<14, -2>>>>
  []   r = 16 ->
     <<<<16, 0>>, <<16, 2>>, <<15, 4>>, <<15, 6>>, <<14, 8>>, <<13, 9>>, <<12, 11>>,
      <<10, 12>>, <<9, 14>>, <<7, 14>>, <<5, 15>>, <<3, 16>>, <<1, 16>>, <<-1, 16>>,
      <<-3, 16>>, <<-5, 15>>, <<-7, 14>>, <<-9, 14>>, <<-10, 12>>, <<-12, 11>>, <<-13, 9>>,
      <<-14, 8>>, <<-15, 6>>, <<-15, 4>>, <<-16, 2>>, <<-16, 0>>, <<-16, -2>>, <<-15, -4>>,
      <<-15, -6>>, <<-14, -8>>, <<-13, -9>>, <<-12, -11>>, <<-10, -12>>, <<-9, -14>>,
      <<-7, -14>>, <<-5, -15>>, <<-3, -16>>, <<-1, -16>>, <<1, -16>>, <<3, -16>>,
      <<5, -15>>, <<7, -14>>, <<9, -14>>, <<10, -12>>, <<12, -11>>, <<13, -9>>, <<14, -8>>,
      <<15, -6>>, <<15, -4>>, <<16, -2>>>>
  []   r = 18 ->
     <<<<18, 0>>, <<18, 2>>, <<18, 4>>, <<17, 6>>, <<16, 8>>, <<15, 10>>, <<14, 11>>,
      <<13, 13>>, <<11, 14>>, <<10, 15>>, <<8, 16>>, <<6, 17>>, <<4, 18>>, <<2, 18>>,
      <<0, 18>>, <<-2, 18>>, <<-4, 18>>, <<-6, 17>>, <<-8, 16>>, <<-10, 15>>, <<-11, 14>>,
      <<-13, 13>>, <<-14, 11>>, <<-15, 10>>, <<-16, 8>>, <<-17, 6>>, <<-18, 4>>,
      <<-18, 2>>, <<-18, 0>>, <<-18, -2>>, <<-18, -4>>, <<-17, -6>>, <<-16, -8>>,
      <<-15, -10>>, <<-14, -11>>, <<-13, -13>>, <<-11, -14>>, <<-10, -15>>, <<-8, -16>>,
      <<-6, -17>>, <<-4, -18>>, <<-2, -18>>, <<0, -18>>, <<2, -18>>, <<4, -18>>,
      <<6, -17>>, <<8, -16>>, <<10, -15>>, <<11, -14>>, <<13, -13>>, <<14, -11>>,
      <<15, -10>>, <<16, -8>>, <<17, -6>>, <<18, -4>>, <<18, -2>>>>
  []   r = 20 ->
     <<<<20, 0>>, <<20, 2>>, <<20, 4>>, <<19, 6>>, <<18, 8>>, <<17, 10>>, <<16, 11>>,
      <<15, 13>>, <<14, 14>>, <<12, 16>>, <<11, 17>>, <<9, 18>>, <<7, 19>>, <<5, 19>>,
      <<3, 20>>, <<1, 20>>, <<-1, 20>>, <<-3, 20>>, <<-5, 19>>, <<-7, 19>>, <<-9, 18>>,
      <<-11, 17>>, <<-12, 16>>, <<-14, 14>>, <<-15, 13>>, <<-16, 11>>, <<-17, 10>>,
      <<-18, 8>>, <<-19, 6>>, <<-20, 4>>, <<-20, 2>>, <<-20, 0>>, <<-20, -2>>, <<-20, -4>>,
      <<-19, -6>>, <<-18, -8>>, <<-17, -10>>, <<-16, -11>>, <<-15, -13>>, <<-14, -14>>,
      <<-12, -16>>, <<-11, -17>>, <<-9, -18>>, <<-7, -19>>, <<-5, -19>>, <<-3, -20>>,
      <<-1, -20>>, <<1, -20>>, <<3, -20>>, <<5, -19>>, <<7, -19>>, <<9, -18>>, <<11, -17>>,
      <<12, -16>>, <<14, -14>>, <<15, -13>>, <<16, -11>>, <<17, -10>>, <<18, -8>>,
      <<19, -6>>, <<20, -4>>, <<20, -2>>>>
  []   r = 22 ->
     <<<<22, 0>>, <<22, 2>>, <<22, 4>>, <<21, 6>>, <<21, 8>>, <<20, 10>>, <<19, 11>>,
      <<18, 13>>, <<16, 15>>, <<15, 16>>, <<13, 17>>, <<12, 19>>, <<10, 20>>, <<8, 20>>,
      <<6, 21>>, <<4, 22>>, <<2, 22>>, <<1, 22>>, <<-2, 22>>, <<-3, 22>>, <<-5, 21>>,
      <<-7, 21>>, <<-9, 20>>, <<-11, 19>>, <<-13, 18>>, <<-14, 17>>, <<-16, 15>>,
      <<-17, 14>>, <<-18, 12>>, <<-19, 11>>, <<-20, 9>>, <<-21, 7>>, <<-21, 5>>,
      <<-22, 3>>, <<-22, 1>>, <<-22, -1>>, <<-22, -3>>, <<-21, -5>>, <<-21, -7>>,
      <<-20, -9>>, <<-19, -11>>, <<-18, -12>>, <<-17, -14>>, <<-16, -15>>, <<-14, -17>>,
      <<-13, -18>>, <<-11, -19>>, <<-9, -20>>, <<-7, -21>>, <<-5, -21>>, <<-3, -22>>,
      <<-2, -22>>, <<1, -22>>, <<2, -22>>, <<4, -22>>, <<6, -21>>, <<8, -20>>, <<10, -20>>,
      <<12, -19>>, <<13, -17>>, <<15, -16>>, <<16, -15>>, <<18, -13>>, <<19, -11>>,
      <<20, -10>>, <<21, -8>>, <<21, -6>>, <<22, -4>>, <<22, -2>>>>

\* the inner loop of phase 2: one circle of radius r around the chest;
\* c = [g, treesInRadius]
RECURSIVE WalkCircle(_, _, _, _, _, _, _)
WalkCircle(c, chest, r, i, target, positionMap, rolls) ==
  IF i >= Len(CircleOffsets(r)) \/ c.treesInRadius >= target THEN c
  ELSE LET x == chest.position.x + CircleOffsets(r)[i + 1][1]
           z == chest.position.z + CircleOffsets(r)[i + 1][2]
           t == tryAddTree(c.g, positionMap, x, z, "chest-cluster", rolls)
       IN WalkCircle([g |-> t.g,
                      treesInRadius |-> c.treesInRadius + (IF t.ok THEN 1 ELSE 0)],
                     chest, r, i + 1, target, positionMap, rolls)

\* "for (let r = 2; r <= radius && treesInRadius < target; r += spacing)"
RECURSIVE Circles(_, _, _, _, _, _, _)
Circles(c, chest, r, target, config, positionMap, rolls) ==
  IF r > chest.nearbyRadius \/ c.treesInRadius >= target THEN c
  ELSE Circles(WalkCircle(c, chest, r, 0, target, positionMap, rolls), chest,
               r + config.clusterSpacing, target, config, positionMap, rolls)

\* the trees of points within the chest's radius, in the plane
TreesInRadius(points, chest) ==
  Cardinality({i \in DOMAIN points :
                 DistSq(points[i].position, chest.position)
                   <= chest.nearbyRadius * chest.nearbyRadius})

\* phase 2: "for (const chest of chestSpawnPoints)"
RECURSIVE ChestClusters(_, _, _, _, _)
ChestClusters(g, chestPoints, config, positionMap, rolls) ==
  IF chestPoints = <<>> THEN g
  ELSE LET chest == Head(chestPoints)
           target == TREES_PER_CHEST[chest.chestType].target
           c == Circles([g |-> g, treesInRadius |-> TreesInRadius(g.points, chest)],
                        chest, 2, target, config, positionMap, rolls)
       IN IF c.g = g THEN ChestClusters(g, Tail(chestPoints), config, positionMap, rolls)
          ELSE ChestClusters(c.g, Tail(chestPoints), config, positionMap, rolls)

\* an order "sort(() => Math.random() - 0.5)" can leave a list in
Permuted(seq, order) ==
  IF order = "reversed" THEN [i \in DOMAIN seq |-> seq[Len(seq) + 1 - i]]
  ELSE IF order = "rotated" THEN [i \in DOMAIN seq |-> seq[((i + 1) % Len(seq)) + 1]]
  ELSE seq

\* phase 3: "for (const pos of shuffledInterior)", groveSpacing 3.  A position passes
\* the usedGroveSpots test exactly when no earlier position of the list has its grid
\* key, whether or not that one became a tree; tryAddTree runs on those that pass.
InteriorGroves(g, shuffledInterior, positionMap, rolls) ==
  LET keys == [i \in DOMAIN shuffledInterior |-> GridKey(shuffledInterior[i], 3)]
      firstOfKey == [k \in {keys[i] : i \in DOMAIN keys} |->
                      CHOOSE i \in DOMAIN keys :
                        keys[i] = k /\ \A j \in 1..(i - 1) : keys[j] # k]
      passing == SelectSeq([i \in DOMAIN keys |-> i], LAMBDA i : firstOfKey[keys[i]] = i)
  IN TryEach(g, [n \in DOMAIN passing |-> <<shuffledInterior[passing[n]].x,
                                            shuffledInterior[passing[n]].z>>],
             positionMap, "interior-grove", rolls)

\* generateTreeSpawnPoints(positions, chestSpawnPoints, config); groveOrder is the
\* order the shuffle of phase 3 leaves the interior positions in, outerRing and
\* afterClusters are the tree counts it logs after phases 1 and 2
generateTreeSpawnPoints(positions, chestPoints, config, groveOrder, rolls) ==
  LET bounds == getMapBounds(positions)
      positionMap == IndexPositions(positions)
      g0 == [points |-> <<>>, usedPositions |-> {}, excluded |-> {}]
      g1 == OuterRingRows(
              OuterRingColumns(g0, LoopValues(bounds.minX, bounds.maxX,
                                              config.outerRingSpacing),
                               bounds, config, positionMap, rolls),
              LoopValues(bounds.minZ, bounds.maxZ, config.outerRingSpacing),
              bounds, config, positionMap, rolls)
      g2 == ChestClusters(g1, chestPoints, config, positionMap, rolls)
      interiorPositions ==
        SelectSeq(positions,
                  LAMBDA pos : /\ <<pos.x, pos.z>> \notin g2.usedPositions
                               /\ ~isNearEdge(pos, bounds, config.outerRingDistance + 2))
      g3 == InteriorGroves(g2, Permuted(interiorPositions, groveOrder), positionMap,
                           rolls)
  IN [outerRing |-> Len(g1.points), afterClusters |-> Len(g2.points),
      trees |-> g3.points, excluded |-> g3.excluded]

\* generateWorldSpawnPoints(mapData, chestCount) from the spawnable positions on;
\* chestOrder is the order the shuffle of generateChestSpawnPoints leaves them in
generateWorldSpawnPoints(positions, chestCount, chestOrder, groveOrder, rolls) ==
  LET chestPoints == generateChestSpawnPoints(Permuted(positions, chestOrder),
                                              chestCount).points
  IN [chests |-> chestPoints]
       @@ generateTreeSpawnPoints(positions, chestPoints, DEFAULT_CONFIG, groveOrder,
                                  rolls)

\* a rectangle of spawnable ground, row by row
Land(x0, x1, z0, z1, biome) ==
  [i \in 1..((x1 - x0 + 1) * (z1 - z0 + 1)) |->
     [x |-> x0 + ((i - 1) % (x1 - x0 + 1)), y |-> 10,
      z |-> z0 + ((i - 1) \div (x1 - x0 + 1)), biome |-> biome]]

\* the maps: a glade around the player start point with a rock far off on either
\* side of it, a pine wood east of the start point, and an islet of nine blocks
WorldMaps ==
  [glade |-> Land(-9, GladeEdge, -9, 9, "plains")
               \o <<[x |-> -14, y |-> 10, z |-> -40, biome |-> "sand"],
                    [x |-> 40, y |-> 10, z |-> 40, biome |-> "sand"]>>,
   wood |-> Land(4, 16, -6, 6, "pine"),
   islet |-> Land(20, 22, 20, 22, "sand")]

InitForest ==
  /\ InitWorld("forest", 75000, <<>>, <<>>, FirstTimers)
  /\ \E map \in DOMAIN WorldMaps, chestCount \in {0, 3, MaxChestCount},
        chestOrder \in {"kept", "reversed", "rotated"},
        groveOrder \in {"kept", "reversed", "rotated"},
        rolls \in {<<0, 500, 900>>, <<800>>} :
       rdata = [phase |-> "input", map |-> map, chestCount |-> chestCount,
                chestOrder |-> chestOrder, groveOrder |-> groveOrder, rolls |-> rolls]

GenerateWorld ==
  /\ rdata.phase = "input"
  /\ rdata' = [phase |-> "generated", map |-> rdata.map, chestCount |-> rdata.chestCount,
               chestOrder |-> rdata.chestOrder, groveOrder |-> rdata.groveOrder,
               rolls |-> rdata.rolls]
                @@ generateWorldSpawnPoints(WorldMaps[rdata.map], rdata.chestCount,
                                            rdata.chestOrder, rdata.groveOrder,
                                            rdata.rolls)
  /\ ev' = Ev("generateWorldSpawnPoints", "-", "-", FALSE, NoCalls, None)
  /\ UNCHANGED <<intervals, now, swung, fires>>
  /\ UNCHANGED <<worldCfg, tickDurationMs, currentTick, timeouts, nextId, treeSpawnPoints,
                 trees, chestSpawnPoints, chests, treeChopsNearSpawnPoint, playerSessions,
                 persisted, life, expect>>

NextForest == GenerateWorld

SpecForest == InitForest /\ [][NextForest]_vars

-----------------------------------------------------------------------------
(* The timers world: the timer manager alone, 50 ms per tick.  Probe callbacks are
   scheduled once or repeating; the world loop hands the manager a tick counter that
   has advanced by one, two or three ticks since the last notification. *)

ProbeDelays == {0, 51, 120}

\* timers.setTimeout(delayMs, probe)
ScheduleOnce(delayMs, throws) ==
  /\ nextId <= MaxTimers
  /\ LET tm == setTimeout([timeouts |-> timeouts, nextId |-> nextId], delayMs,
                          [kind |-> "probe", at |-> currentTick, delay |-> delayMs,
                           throws |-> throws])
     IN /\ timeouts' = tm.timeouts
        /\ nextId' = tm.nextId
  /\ ev' = Ev("setTimeout", "-", "-", nextId, NoCalls, [delay |-> delayMs])
  /\ UNCHANGED <<intervals, now, swung, fires>>
  /\ UNCHANGED <<worldCfg, tickDurationMs, currentTick, treeSpawnPoints, trees,
                 chestSpawnPoints, chests, treeChopsNearSpawnPoint, playerSessions,
                 persisted, life, expect, rdata>>

\* timers.setInterval(intervalMs, probe)
ScheduleRepeating(intervalMs, throws) ==
  /\ nextId <= MaxTimers
  /\ LET tm == setInterval([intervals |-> intervals, nextId |-> nextId], intervalMs,
                           [kind |-> "probe", at |-> currentTick, delay |-> intervalMs,
                            throws |-> throws])
     IN /\ intervals' = tm.intervals
        /\ nextId' = tm.nextId
  /\ ev' = Ev("setInterval", "-", "-", nextId, NoCalls, [delay |-> intervalMs])
  /\ UNCHANGED <<timeouts, now, swung, fires>>
  /\ UNCHANGED <<worldCfg, tickDurationMs, currentTick, treeSpawnPoints, trees,
                 chestSpawnPoints, chests, treeChopsNearSpawnPoint, playerSessions,
                 persisted, life, expect, rdata>>

\* timers.clearTimeout(id)
ClearTimeout(id) ==
  /\ timeouts' = clearTimeout(timeouts, id)
  /\ fires' = MarkCancelled(fires, timeouts, id)
  /\ ev' = Ev("clearTimeout", "-", "-", Len(timeouts) - Len(timeouts'), NoCalls,
              [id |-> id])
  /\ UNCHANGED <<intervals, nextId, now, swung>>
  /\ UNCHANGED <<worldCfg, tickDurationMs, currentTick, treeSpawnPoints, trees,
                 chestSpawnPoints, chests, treeChopsNearSpawnPoint, playerSessions,
                 persisted, life, expect, rdata>>

\* timers.clearInterval(id)
ClearInterval(id) ==
  /\ intervals' = clearInterval(intervals, id)
  /\ fires' = MarkCancelled(fires, intervals, id)
  /\ ev' = Ev("clearInterval", "-", "-", Len(intervals) - Len(intervals'), NoCalls,
              [id |-> id])
  /\ UNCHANGED <<timeouts, nextId, now, swung>>
  /\ UNCHANGED <<worldCfg, tickDurationMs, currentTick, treeSpawnPoints, trees,
                 chestSpawnPoints, chests, treeChopsNearSpawnPoint, playerSessions,
                 persisted, life, expect, rdata>>

InitTimers ==
  /\ InitWorld("timers", 50, <<>>, <<>>, FirstTimers)
  /\ rdata = None

NextTimers ==
  \/ \E d \in ProbeDelays, throws \in BOOLEAN : ScheduleOnce(d, throws)
  \/ \E d \in ProbeDelays, throws \in BOOLEAN : ScheduleRepeating(d, throws)
  \/ \E step \in 1..3 : TickBy(step, MaxTickTimers)

SpecTimers == InitTimers /\ [][NextTimers]_vars

\* the timers world with cancels; a handle one past the last issued one is unknown
CancelDelays == {0, 120}

NextCancel ==
  \/ \E d \in CancelDelays : ScheduleOnce(d, FALSE)
  \/ \E d \in CancelDelays : ScheduleRepeating(d, FALSE)
  \/ \E step \in 1..2 : TickBy(step, MaxTickCancel)
  \/ \E id \in 1..(MaxTimers + 1) : ClearTimeout(id)
  \/ \E id \in 1..(MaxTimers + 1) : ClearInterval(id)

SpecCancel == InitTimers /\ [][NextCancel]_vars

\* the timers world where a one-shot callback cancels another one-shot timer
ScheduleCancel(delayMs, target) ==
  /\ nextId <= MaxTimers
  /\ LET tm == setTimeout([timeouts |-> timeouts, nextId |-> nextId], delayMs,
                          [kind |-> "cancel", target |-> target])
     IN /\ timeouts' = tm.timeouts
        /\ nextId' = tm.nextId
  /\ ev' = Ev("setTimeout", "-", "-", nextId, NoCalls, [delay |-> delayMs])
  /\ UNCHANGED <<intervals, now, swung, fires>>
  /\ UNCHANGED <<worldCfg, tickDurationMs, currentTick, treeSpawnPoints, trees,
                 chestSpawnPoints, chests, treeChopsNearSpawnPoint, playerSessions,
                 persisted, life, expect, rdata>>

InitCancelScan ==
  /\ InitWorld("cancelscan", 50, <<>>, <<>>, FirstTimers)
  /\ rdata = None

NextCancelScan ==
  \/ \E d \in ProbeDelays : ScheduleOnce(d, FALSE)
  \/ \E d \in ProbeDelays, target \in 1..(MaxTimers + 1) : ScheduleCancel(d, target)
  \/ \E step \in 1..2 : TickBy(step, MaxTickCancel)

SpecCancelScan == InitCancelScan /\ [][NextCancelScan]_vars

-----------------------------------------------------------------------------
(* Radius queries: getTreesInRadius on two ferns at any place and height, felled or
   standing, for a centre on the ground or above it.  Radii are in tenths of a block. *)

QueryRadii == {0, 10, 14, 15, 30}

FernAt(id, x, y, z, chopped) ==
  [id |-> id, treeId |-> "fern", entity |-> ~chopped,
   currentHp |-> IF chopped THEN 0 ELSE TREES.fern.maxHp, maxHp |-> TREES.fern.maxHp,
   powerReward |-> TREES.fern.powerReward,
   position |-> [x |-> x, y |-> y, z |-> z], isChopped |-> chopped]

FernsOf(id) ==
  {FernAt(id, x, y, z, chopped) :
     x \in 0..MaxCoord, y \in {0, 3}, z \in 0..1, chopped \in BOOLEAN}

RadiusInputs ==
  [trees : {{a, b} : a \in FernsOf("t1"), b \in FernsOf("t2")},
   center : {[x |-> x, y |-> y, z |-> 0] : x \in {0, 1}, y \in {0, 2}},
   radius : QueryRadii]

InitRadius ==
  /\ InitWorld("radius", 75000, <<>>, <<>>, FirstTimers)
  /\ \E d \in RadiusInputs : rdata = [phase |-> "input", data |-> d]

Query ==
  /\ rdata.phase = "input"
  /\ rdata' = [phase |-> "queried", input |-> rdata.data,
               result |-> getTreesInRadius(rdata.data.trees, <<"t1", "t2">>,
                                           rdata.data.center, rdata.data.radius)]
  /\ ev' = Ev("getTreesInRadius", "-", "-", FALSE, NoCalls, None)
  /\ UNCHANGED <<intervals, now, swung, fires>>
  /\ UNCHANGED <<worldCfg, tickDurationMs, currentTick, timeouts, nextId, treeSpawnPoints,
                 trees, chestSpawnPoints, chests, treeChopsNearSpawnPoint, playerSessions,
                 persisted, life, expect>>

NextRadius == Query

SpecRadius == InitRadius /\ [][NextRadius]_vars

-----------------------------------------------------------------------------
(* The regrowth world: a fern and a small oak, no chest, 10 s per tick, so that the
   fern's 20 s are two ticks and the oak's 30 s three.  The world loop keeps ticking;
   nobody calls spawnAll or cleanup again. *)

RegrowTreePoints ==
  <<[id |-> "t1", position |-> Pos(3, 0), treeId |-> "fern"],
    [id |-> "t2", position |-> Pos(0, 4), treeId |-> "oak_small"]>>

InitRegrow ==
  /\ InitWorld("regrow", 10000, RegrowTreePoints, <<>>, FirstTimers)
  /\ rdata = None

NextRegrow ==
  \/ Join("p1")
  \/ \E t \in TreeIds : DamageTree(t, 80, "p1", MaxChopsRegrow)
  \/ \E t \in TreeIds : FallAnimationDone(t)
  \/ Tick(MaxTickRegrow)

SpecRegrow == InitRegrow /\ [][NextRegrow]_vars /\ WF_vars(Tick(MaxTickRegrow))

-----------------------------------------------------------------------------
(* Drop tables: rollWeighted and openChest on every table of five weights from -1 to
   MaxWeight, the misconfigured ones included *)

TableInputs ==
  [weights : [1..Len(Rarities) -> -1..MaxWeight],
   draws : {<<extra, rarityDraw, 0, rarityDraw, 999>> :
              extra \in {0, 999}, rarityDraw \in {0, 500, 999}}]

InitTable ==
  /\ InitWorld("table", 75000, <<>>, <<>>, FirstTimers)
  /\ \E d \in TableInputs : rdata = [phase |-> "input", data |-> d]

OpenOnTable ==
  /\ rdata.phase = "input"
  /\ rdata' = [phase |-> "opened", input |-> rdata.data,
               key |-> rollWeighted(rdata.data.weights, rdata.data.draws[2]),
               opened |-> OpenTable(rdata.data.weights, ReturningBlob.data,
                                    rdata.data.draws)]
  /\ ev' = Ev("openChest", "-", "-", FALSE, NoCalls, None)
  /\ UNCHANGED <<intervals, now, swung, fires>>
  /\ UNCHANGED <<worldCfg, tickDurationMs, currentTick, timeouts, nextId, treeSpawnPoints,
                 trees, chestSpawnPoints, chests, treeChopsNearSpawnPoint, playerSessions,
                 persisted, life, expect>>

NextTable == OpenOnTable

SpecTable == InitTable /\ [][NextTable]_vars

-----------------------------------------------------------------------------
(* Openings: openChest on its own, for every chest tier, three players and rng outcomes
   on both sides of the emerald axe's extra-roll chance *)

OpeningInputs ==
  [tier : {ChestTiers[i] : i \in DOMAIN ChestTiers},
   playerData : {DEFAULT_PLAYER_DATA, ReturningBlob.data,
                 [ReturningBlob.data EXCEPT !.equippedAxe = "wooden"]},
   draws : {<<e, r1, a1, r2, a2>> : e \in {0, 199, 200, 999}, r1 \in {0, 300, 995},
                                    a1 \in {0, 900}, r2 \in {0, 300, 995},
                                    a2 \in {0, 900}}]

InitOpening ==
  /\ InitWorld("opening", 75000, <<>>, <<>>, FirstTimers)
  /\ \E d \in OpeningInputs : rdata = [phase |-> "input", data |-> d]

\* openChest(tier, playerData, rng); playerData is the snapshot as it is after the call
OpenOnce ==
  /\ rdata.phase = "input"
  /\ rdata' = [phase |-> "opened", input |-> rdata.data,
               results |-> openChest(rdata.data.tier, rdata.data.playerData,
                                     rdata.data.draws),
               playerData |-> rdata.data.playerData]
  /\ ev' = Ev("openChest", "-", "-", FALSE, NoCalls, None)
  /\ UNCHANGED <<intervals, now, swung, fires>>
  /\ UNCHANGED <<worldCfg, tickDurationMs, currentTick, timeouts, nextId, treeSpawnPoints,
                 trees, chestSpawnPoints, chests, treeChopsNearSpawnPoint, playerSessions,
                 persisted, life, expect>>

NextOpening == OpenOnce

SpecOpening == InitOpening /\ [][NextOpening]_vars

-----------------------------------------------------------------------------
(* Stored blobs: a player whose persisted blob is any of StoredBlobs joins, leaves and
   has the data loaded for a state message *)

OwnedChoices ==
  {[a \in {"wooden"} |-> 1],
   [a \in {"wooden"} |-> 0],
   [a \in {"wooden", "golden"} |-> IF a = "golden" THEN -1 ELSE 1],
   [a \in {"wooden", "bogus"} |-> IF a = "bogus" THEN 2 ELSE 1]}

StoredBlobs ==
  [power : {-5, 0, 7}, shards : {-3, 0},
   equippedAxe : {"wooden", "golden", "bogus"},
   ownedAxes : OwnedChoices,
   axeDamageBonus : {EmptyMap}, axeAreaBonus : {EmptyMap},
   stats : {[treesChopped |-> t, chestsOpened |-> 0, totalShardsClaimed |-> 0] :
              t \in {-1, 0}}]

\* sendUIStateUpdate(player): "const data = PlayerManager.loadPlayerData(player)"
LoadSnapshot(player) ==
  /\ playerSessions[player].has
  /\ LET st0 == StoreCtx(persisted[player])
         st1 == sendUIStateUpdate(st0)
     IN /\ persisted' = SetBlob(player, st1)
        /\ ev' = Ev("load", player, "-", FALSE, st1,
                    [snapshot |-> LoadedData(st0), stored |-> persisted[player].data])
  /\ UNCHANGED <<intervals, now, swung, fires>>
  /\ UNCHANGED <<worldCfg, tickDurationMs, currentTick, timeouts, nextId, treeSpawnPoints,
                 trees, chestSpawnPoints, chests, treeChopsNearSpawnPoint, playerSessions,
                 life, expect, rdata>>

InitLoad ==
  /\ \E d \in StoredBlobs :
       InitWorld("load", 75000, <<>>, <<>>,
                 [q \in Players |-> IF q = "p1" THEN [has |-> TRUE, data |-> d] ELSE NoData])
  /\ rdata = None

NextLoad ==
  \/ Join("p1")
  \/ Leave("p1")
  \/ LoadSnapshot("p1")

SpecLoad == InitLoad /\ [][NextLoad]_vars

-----------------------------------------------------------------------------
(* The store world: a first-time player next to an epic chest that costs no chops,
   with the chat commands, the equip handler and the chest handlers *)

InitStore ==
  /\ InitWorld("store", 360000, <<>>, CapChestPoints, FirstTimers)
  /\ rdata = None

NextStore ==
  \/ Join("p1")
  \/ \E amount \in {-5, 2000} : CommandPower("p1", amount, PowerCap)
  \/ \E a \in {"stone", "bogus"} : CommandGive("p1", a)
  \/ \E a \in {"wooden", "stone"} : HandleEquipAxe("p1", a)
  \/ HandleChestInteraction("c1", "p1")
  \/ \E draws \in GrantDraws : HandleOpenChest("p1", 0, draws, MaxOpens)

SpecStore == InitStore /\ [][NextStore]_vars

-----------------------------------------------------------------------------
(* The shared defaults.  DEFAULT_PLAYER_DATA is one module-level object; a first load
   returns { ...DEFAULT_PLAYER_DATA }, a new object whose four nested objects are the
   ones of the defaults.  rdata holds the heap: defaults is the present content of those
   four nested objects, and held[p] is the object the last loadPlayerData of p returned,
   data with its own values and shares with the keys whose nested object is still the
   one of the defaults.  The host keeps a copy of what setPersistedData is given. *)

NestedKeys == {"ownedAxes", "axeDamageBonus", "axeAreaBonus", "stats"}

NestedOf(data) == [k \in NestedKeys |-> data[k]]

NoHeld == [has |-> FALSE, shares |-> {}, data |-> DEFAULT_PLAYER_DATA]

\* DEFAULT_PLAYER_DATA as it reads now
DefaultsNow == Spread(DEFAULT_PLAYER_DATA, rdata.defaults)

\* the object a player holds, read through its references
View(h) == Spread(h.data, [k \in h.shares |-> rdata.defaults[k]])

\* the heap after a function has left the held object of p reading as new: a nested
\* object written in place is written where it lives, one assigned anew (repointed)
\* belongs to the held object from then on
WriteBack(p, new, repointed) ==
  LET h == rdata.held[p]
      inPlace == h.shares \ repointed
  IN [rdata EXCEPT !.defaults = Spread(@, [k \in inPlace |-> new[k]]),
                   !.held[p] = [has |-> TRUE, shares |-> inPlace, data |-> new]]

HeapFrame ==
  /\ UNCHANGED <<intervals, now, swung, fires>>
  /\ UNCHANGED <<worldCfg, tickDurationMs, currentTick, timeouts, nextId, treeSpawnPoints,
                 trees, chestSpawnPoints, chests, treeChopsNearSpawnPoint, playerSessions,
                 life, expect>>

\* loadPlayerData(player)
LoadHeld(p) ==
  /\ IF ~persisted[p].has
     THEN /\ rdata' = [rdata EXCEPT !.held[p] = [has |-> TRUE, shares |-> NestedKeys,
                                                 data |-> DEFAULT_PLAYER_DATA]]
          /\ persisted' = [persisted EXCEPT ![p] = [has |-> TRUE, data |-> DefaultsNow]]
          /\ ev' = Ev("loadPlayerData", p, "-", "first", NoCalls,
                      [received |-> DefaultsNow])
     ELSE LET saved == persisted[p].data
              top == Spread(DefaultsNow, saved)
              data == [power |-> top.power, shards |-> top.shards,
                       ownedAxes |-> Spread(DefaultsNow.ownedAxes,
                                            OrEmpty(saved, "ownedAxes")),
                       equippedAxe |-> top.equippedAxe,
                       axeDamageBonus |-> OrEmpty(saved, "axeDamageBonus"),
                       axeAreaBonus |-> OrEmpty(saved, "axeAreaBonus"),
                       stats |-> Spread(DefaultsNow.stats, OrEmpty(saved, "stats"))]
          IN /\ rdata' = [rdata EXCEPT !.held[p] = [has |-> TRUE, shares |-> {},
                                                    data |-> data]]
             /\ ev' = Ev("loadPlayerData", p, "-", "merged", NoCalls,
                         [received |-> data])
             /\ UNCHANGED persisted
  /\ HeapFrame

\* applyChestRewards(playerData, openChest(tier, playerData, rng)) on the held object
ApplyRewardsHeld(p, tier, draws) ==
  /\ rdata.held[p].has
  /\ View(rdata.held[p]).stats.chestsOpened < MaxOpens
  /\ LET v == View(rdata.held[p])
         results == openChest(tier, v, draws)
     IN /\ rdata' = WriteBack(p, applyChestRewards(v, results), {})
        /\ ev' = Ev("applyChestRewards", p, "-", Len(results), NoCalls,
                    [results |-> results])
  /\ UNCHANGED persisted
  /\ HeapFrame

\* upgradeDamage(playerData, axeId) or upgradeArea(playerData, axeId) on the held object
UpgradeHeld(p, kind, axeId) ==
  /\ rdata.held[p].has
  /\ LET v == View(rdata.held[p])
         r == IF kind = "damage" THEN upgradeDamage(v, axeId) ELSE upgradeArea(v, axeId)
     IN /\ rdata' = WriteBack(p, r.data, {})
        /\ ev' = Ev("upgrade", p, axeId, r.ok, NoCalls, [kind |-> kind])
  /\ UNCHANGED persisted
  /\ HeapFrame

\* the held object as repairPlayerData reads it, and the numbers of a repaired one
ToJs(v) ==
  [equippedAxe |-> v.equippedAxe,
   ownedAxes |-> [a \in DOMAIN v.ownedAxes |-> Num(v.ownedAxes[a])],
   power |-> Num(v.power), shards |-> Num(v.shards),
   stats |-> [k \in DOMAIN v.stats |-> Num(v.stats[k])]]

NumberOf(x) == IF x.t = "num" THEN x.v ELSE 0

\* repairPlayerData(data) on the held object: "data.ownedAxes = sanitized" and
\* "data.stats = {...}" assign a new object, every other write is in place
RepairHeld(p) ==
  /\ rdata.held[p].has
  /\ LET v == View(rdata.held[p])
         r == repairPlayerData(ToJs(v))
         new == [v EXCEPT
                   !.equippedAxe = r.data.equippedAxe,
                   !.ownedAxes = [a \in DOMAIN r.data.ownedAxes |->
                                    NumberOf(r.data.ownedAxes[a])],
                   !.power = NumberOf(r.data.power),
                   !.shards = NumberOf(r.data.shards),
                   !.stats = [k \in DOMAIN r.data.stats |-> NumberOf(r.data.stats[k])]]
         repointed ==
           (IF DOMAIN r.data.ownedAxes # DOMAIN v.ownedAxes \cup {r.data.equippedAxe}
            THEN {"ownedAxes"} ELSE {})
           \cup (IF "stats" \in DOMAIN r.updates THEN {"stats"} ELSE {})
     IN /\ rdata' = WriteBack(p, new, repointed)
        /\ ev' = Ev("repairPlayerData", p, "-", DOMAIN r.updates # {}, NoCalls, None)
  /\ UNCHANGED persisted
  /\ HeapFrame

\* rng() outcomes tried: no extra roll; the common or the exotic row, and 0.1 for the axe,
\* which is the wooden axe of the common pool and the ruby axe of the exotic one
HeapDraws == {<<500, r, 100, 0, 0>> : r \in {0, 995}}

InitDefaults ==
  /\ InitWorld("defaults", 75000, <<>>, <<>>, FirstTimers)
  /\ rdata = [phase |-> "heap", defaults |-> NestedOf(DEFAULT_PLAYER_DATA),
              held |-> [q \in Players |-> NoHeld]]

\* p1 plays; p2 only arrives, at any moment
NextDefaults ==
  \/ \E p \in Players : LoadHeld(p)
  \/ \E draws \in HeapDraws : ApplyRewardsHeld("p1", "mythic", draws)
  \/ \E kind \in {"damage", "area"}, a \in {"wooden", "ruby"} : UpgradeHeld("p1", kind, a)
  \/ RepairHeld("p1")

SpecDefaults == InitDefaults /\ [][NextDefaults]_vars

-----------------------------------------------------------------------------
(* Properties *)

PowerIn(blobs, p) == LoadedData(StoreCtx(blobs[p])).power

TreesChoppedIn(blobs, p) == LoadedData(StoreCtx(blobs[p])).stats.treesChopped

\* the tree of every life: below maxHp dealt it stands, untouched by rewards; at maxHp
\* or more it is down and was rewarded and notified once
C1_LifeInvariant ==
  \A e \in trees :
    LET l == life[e.id]
    IN /\ l.dealt < e.maxHp =>
            ~e.isChopped /\ e.currentHp = e.maxHp - l.dealt /\ l.rewards = 0 /\ l.notifs = 0
       /\ l.dealt >= e.maxHp => e.isChopped /\ l.rewards = 1 /\ l.notifs = 1
       /\ (e.maxHp = 140 /\ l.hits = 11 /\ l.dealt = 132) => ~e.isChopped /\ e.currentHp = 8
       /\ (e.maxHp = 140 /\ l.hits = 12 /\ l.dealt = 144) => e.isChopped /\ l.rewards = 1

\* an accepted hit: it returns false and leaves power and treesChopped alone while the
\* damage dealt stays below maxHp, and returns true, adds the power reward and one
\* chopped tree when it reaches maxHp
C1_HitStep ==
  \A e \in trees :
    (life'[e.id].hits = life[e.id].hits + 1) =>
      /\ ev'.op = "damageTree" /\ ev'.target = e.id
      /\ IF life'[e.id].dealt < e.maxHp
         THEN /\ ev'.ret = FALSE
              /\ persisted' = persisted
              /\ life'[e.id].rewards = 0
         ELSE /\ ev'.ret = TRUE
              /\ life'[e.id].rewards = 1 /\ life'[e.id].notifs = 1
              /\ PowerIn(persisted', ev'.player)
                   = PowerIn(persisted, ev'.player) + e.powerReward
              /\ TreesChoppedIn(persisted', ev'.player)
                   = TreesChoppedIn(persisted, ev'.player) + 1
              /\ (\E c \in chests : c.id = "c1" /\ ~c.isCollected) =>
                   treeChopsNearSpawnPoint'["c1"][ev'.player]
                     = treeChopsNearSpawnPoint["c1"][ev'.player] + 1

\* C1: every damageTree call that leaves the cumulative damage of a tree's life below its
\* maxHp keeps it alive and returns false; the first call that reaches maxHp destroys it
\* and awards power, increments treesChopped and notifies onTreeChopped exactly once for
\* that life.  With maxHp 140 and 12 per hit: alive at 8 HP after 11 hits, destroyed by
\* the 12th with one reward event.
C1_DestroyedOncePerLife == [](C1_LifeInvariant) /\ [][C1_HitStep]_vars

C1_TwelfthHitDestroys ==
  /\ ev.op = "damageTree" /\ ev.ret = TRUE
  /\ \E e \in trees :
       /\ e.id = ev.target /\ e.maxHp = 140 /\ e.isChopped
       /\ life[e.id] = [dealt |-> 144, hits |-> 12, rewards |-> 1, notifs |-> 1]

\* C2: after any sequence of spawnAll, damage, chest collection, ticks and cleanup, the
\* tree map and the chest map hold at most one instance per spawn-point id, hence at most
\* one live instance per id.
C2_OneInstancePerId ==
  /\ \A a, b \in trees : a.id = b.id => a = b
  /\ \A a, b \in chests : a.id = b.id => a = b
  /\ \A id \in TreeIds : Cardinality({e \in getAllTrees(trees) : e.id = id}) <= 1
  /\ \A id \in {"c1", "c2"} : Cardinality({c \in getAllChests(chests) : c.id = id}) <= 1

C2_RespawnedBoth ==
  /\ ev.op = "tick" /\ ev.ret >= 2
  /\ \E e \in trees : ~e.isChopped
  /\ \E c \in chests : ~c.isCollected

\* C3: destroying one tree issues exactly one save call, and that call carries both the
\* increased power and the incremented treesChopped stat.
C3_OneSavePerDestroyedTree ==
  (ev.op = "damageTree" /\ ev.ret = TRUE) =>
     /\ Len(ev.saves) = 1
     /\ {"power", "stats"} \subseteq ev.saves[1]

\* C4: opening one collected chest loads the snapshot once before its save, applies every
\* roll result to that snapshot, and issues exactly one save whose patch holds ownedAxes,
\* shards and stats, for one roll result and for two.
C4_OpenChestSavesOnce ==
  (ev.op = "openChest" /\ ev.ret = "opened") =>
     LET r == ev.info.results
         b == ev.info.before
         d == persisted[ev.player].data
     IN /\ Len(r) \in {1, 2}
        /\ ev.info.loadsBeforeSave = 1
        /\ Len(ev.saves) = 1
        /\ ev.saves[1] = {"ownedAxes", "shards", "stats"}
        /\ d.shards = b.shards + ShardsOf(r)
        /\ d.stats.totalShardsClaimed = b.stats.totalShardsClaimed + ShardsOf(r)
        /\ d.stats.chestsOpened = b.stats.chestsOpened + 1
        /\ d.stats.treesChopped = b.stats.treesChopped
        /\ DOMAIN d.ownedAxes = DOMAIN b.ownedAxes \cup AxesOf(r)
        /\ \A a \in AxesOf(r) : d.ownedAxes[a] = 1
        /\ \A a \in DOMAIN b.ownedAxes \ AxesOf(r) : d.ownedAxes[a] = b.ownedAxes[a]
        /\ d.power = b.power /\ d.equippedAxe = b.equippedAxe

C4_TwoResultsOpened ==
  /\ ev.op = "openChest" /\ ev.ret = "opened"
  /\ Len(ev.info.results) = 2
  /\ ev.info.results[1].kind = "axe" /\ ev.info.results[2].kind = "shards"

AtLeastOne(x) == (x.t = "num" /\ x.v >= 1) \/ x.t = "inf"

\* C6: for every input snapshot (invalid equipped id; missing, zero, negative or
\* non-numeric owned counts), after repairPlayerData the snapshot's ownedAxes[equippedAxe]
\* is at least 1.
C6_EquippedOwnedAfterRepair ==
  rdata.phase = "repaired" =>
     AtLeastOne(Prop(rdata.data.ownedAxes, rdata.data.equippedAxe))

\* the failing input of C6: the equipped stone axe has a count that is not a number, and
\* after the repair the snapshot has no stone entry at all
C6_NonNumericCountDropped ==
  /\ rdata.phase = "repaired"
  /\ rdata.input.equippedAxe = "stone"
  /\ rdata.input.ownedAxes = [a \in {"wooden", "stone"} |->
                                IF a = "wooden" THEN Num(1) ELSE Str]
  /\ rdata.data.equippedAxe = "stone"
  /\ "stone" \notin DOMAIN rdata.data.ownedAxes

\* C7: an interaction collects the chest only if the player's power is at least the
\* tier's powerGate and the counted chops are at least the unlock cost; at a common chest
\* (cost 8, gate 0) 7 counted chops are rejected with "1 more tree", with 0 power too,
\* and the same interaction after the 8th chop collects the chest.
C7_CollectsOnlyWhenUnlocked ==
  (ev.op = "chestInteraction" /\ ev.ret \in {"collected", "rejected", "full"}) =>
     LET i == ev.info
     IN /\ ev.ret = "collected" =>
             i.power >= CHESTS[i.tier].powerGate /\ i.nearbyTrees >= i.unlockCost
        /\ (i.tier = "common" /\ i.unlockCost = 8 /\ i.nearbyTrees = 7 /\ i.power >= 0) =>
             /\ CHESTS[i.tier].powerGate = 0
             /\ ev.ret = "rejected"
             /\ i.reason = [needs |-> "trees", amount |-> 1, have |-> 7]
        /\ (i.tier = "common" /\ i.unlockCost = 8 /\ i.nearbyTrees = 8 /\ i.power >= 0) =>
             ev.ret = "collected"

C7_CollectedAfterEighthChop ==
  /\ ev.op = "chestInteraction" /\ ev.ret = "collected"
  /\ ev.info.tier = "common" /\ ev.info.unlockCost = 8 /\ ev.info.nearbyTrees = 8
  /\ Len(playerSessions[ev.player].collectedChests) = 1

C7_RejectedAtSevenChopsNoPower ==
  /\ ev.op = "chestInteraction" /\ ev.ret = "rejected"
  /\ ev.info.power = 0 /\ ev.info.nearbyTrees = 7

\* the four cases in which an attempt must fail, read off the state before it
AttemptMustFail(c, p) ==
  \/ \A x \in chests : x.id # c
  \/ \E x \in chests : x.id = c /\ x.isCollected
  \/ \E x \in chests :
       /\ x.id = c
       /\ \/ PowerIn(persisted, p) < CHESTS[x.tier].powerGate
          \/ getPlayerTreeChops(treeChopsNearSpawnPoint, p, c)
               < UnlockCostOf(chestSpawnPoints, x)
  \/ Len(playerSessions[p].collectedChests) >= 20

C8_FailedAttemptStep ==
  (ev'.op = "chestInteraction" /\ AttemptMustFail(ev'.target, ev'.player)) =>
     /\ chests' = chests
     /\ playerSessions' = playerSessions
     /\ treeChopsNearSpawnPoint' = treeChopsNearSpawnPoint
     /\ timeouts' = timeouts /\ nextId' = nextId
     /\ ev'.ret # "collected"

\* C8: a collection attempt on an unknown chest id, on a collected chest, with the unlock
\* predicate false, or by a player holding 20 chests changes nothing: not the collected
\* flag, nor any session inventory, nor any chop counter, nor the pending timers.
C8_FailedAttemptChangesNothing == [][C8_FailedAttemptStep]_vars

C8_RefusedAtCap ==
  /\ ev.op = "chestInteraction" /\ ev.ret = "full"
  /\ Len(playerSessions[ev.player].collectedChests) = 20
  /\ \E x \in chests : x.id = ev.target /\ ~x.isCollected

C9_CollectionStep ==
  (ev'.op = "chestInteraction" /\ ev'.ret = "collected") =>
     LET c == ev'.target
         p == ev'.player
     IN /\ \E x \in chests :
             /\ x.id = c /\ ~x.isCollected
             /\ playerSessions'[p].collectedChests
                  = Append(playerSessions[p].collectedChests,
                           [tier |-> x.tier, spawnPointId |-> c])
        /\ \A q \in Players \ {p} : playerSessions'[q] = playerSessions[q]
        /\ \A q \in Players : getPlayerTreeChops(treeChopsNearSpawnPoint', q, c) = 0
        /\ \A x \in chests' : x.id = c => x.isCollected
        /\ Len(timeouts') = Len(timeouts) + 1
        /\ SubSeq(timeouts', 1, Len(timeouts)) = timeouts
        /\ timeouts'[Len(timeouts')].callback = [kind |-> "respawnChest", id |-> c]
        /\ timeouts'[Len(timeouts')].targetTick > currentTick

\* C9: a successful collection appends exactly one record (tier and spawn-point id) to
\* the collector's inventory, resets every player's chop counter of that spawn point to
\* zero, leaves the chest not live, and schedules exactly one respawn for it.
C9_CollectionEffects == [][C9_CollectionStep]_vars

C9_CollectedWhileOtherHadChops ==
  /\ ev.op = "chestInteraction" /\ ev.ret = "collected"
  /\ \E q \in Players \ {ev.player} : ev.info.chopsBefore[q] > 0
  /\ \A q \in Players : treeChopsNearSpawnPoint[ev.target][q] = 0

\* C10: whatever chests the players collect and open, no session inventory ever holds
\* more than 20 collected chests.
C10_InventoryWithinCap ==
  \A p \in Players : Len(playerSessions[p].collectedChests) <= 20

C10_TwentiethCollected ==
  /\ ev.op = "chestInteraction" /\ ev.ret = "collected"
  /\ Len(playerSessions[ev.player].collectedChests) = 20

-----------------------------------------------------------------------------
\* C11: over a table with one key of weight 1 and every other key of weight 0,
\* rollWeighted returns the weight-1 key for every rng draw in [0,1), wherever the key
\* sits in the iteration order.
C11_ReturnsTheWeightedKey ==
  (ev.op = "rollWeighted" /\ rdata.phase = "rolled") => rdata.key = rdata.input.key

C11_DrawZeroReturnsFirstKey ==
  /\ ev.op = "rollWeighted" /\ rdata.phase = "rolled"
  /\ rdata.input.k = 0 /\ rdata.input.key = 2 /\ rdata.key = 1

-----------------------------------------------------------------------------
\* C12: for each roll of openChest, a rolled axe the player's snapshot owns at least one
\* of gives a shards grant of SHARDS_FOR_DUPLICATE of the rolled rarity and no axe grant;
\* any other rolled axe gives an axe grant for that axe.
C12_DuplicateBecomesShards ==
  (ev.op = "openChest" /\ ev.ret = "opened") =>
    \A i \in DOMAIN ev.info.results :
      LET r == ev.info.results[i]
          counts == ev.info.before.ownedAxes
          has == r.axeId \in DOMAIN counts /\ counts[r.axeId] >= 1
      IN /\ has => /\ r.kind = "shards"
                   /\ r.amount = CASE r.rarity = "common" -> 1 [] r.rarity = "rare" -> 3
                                   [] r.rarity = "epic" -> 8 [] r.rarity = "mythic" -> 20
                                   [] r.rarity = "exotic" -> 60
         /\ ~has => r.kind = "axe"

C12_DuplicateAndNewInOneOpening ==
  /\ ev.op = "openChest" /\ ev.ret = "opened"
  /\ Len(ev.info.results) = 2
  /\ ev.info.results[1].kind = "shards" /\ ev.info.results[1].axeId = "wooden"
  /\ ev.info.results[2].kind = "axe" /\ ev.info.results[2].axeId = "stone"

-----------------------------------------------------------------------------
C13_SameNewAxeGrantedTwice ==
  /\ ev.op = "openChest" /\ ev.ret = "opened"
  /\ Len(ev.info.results) = 2
  /\ ev.info.results[1].kind = "axe" /\ ev.info.results[2].kind = "axe"
  /\ ev.info.results[1].axeId = ev.info.results[2].axeId

-----------------------------------------------------------------------------
\* C14 as stated: asked for 40 chest spawn points, with enough spaced candidates,
\* generateChestSpawnPoints produces 17 common, 13 rare, 6 epic and 2 mythic chests,
\* choosing the positions of the rarest tier first.
C14_SeventeenCommon ==
  (rdata.phase = "generated" /\ rdata.targetCount = 40) =>
    /\ rdata.tierCounts = [common |-> 17, rare |-> 13, epic |-> 6, mythic |-> 2]
    /\ rdata.points[1].chestType = "mythic"

TierCountIn(points, tier) == Cardinality({i \in DOMAIN points : points[i].chestType = tier})

RarityRank(tier) ==
  CASE tier = "mythic" -> 1 [] tier = "epic" -> 2 [] tier = "rare" -> 3 [] tier = "common" -> 4

\* C14: asked for 40 chest spawn points, with enough spaced candidates,
\* generateChestSpawnPoints produces 18 common, 13 rare, 6 epic and 2 mythic chests (39
\* in all), choosing the positions of the rarest tier first: the points come out mythic
\* first, and the first mythic chest stands on the first candidate of the shuffled order.
C14_EighteenCommon ==
  (rdata.phase = "generated" /\ rdata.targetCount = 40) =>
    /\ TierCountIn(rdata.points, "common") = 18
    /\ TierCountIn(rdata.points, "rare") = 13
    /\ TierCountIn(rdata.points, "epic") = 6
    /\ TierCountIn(rdata.points, "mythic") = 2
    /\ Len(rdata.points) = 39
    /\ \A i, j \in DOMAIN rdata.points :
         i < j => RarityRank(rdata.points[i].chestType) <= RarityRank(rdata.points[j].chestType)
    /\ rdata.points[1].position.x = rdata.shuffled[1].x
    /\ rdata.points[1].position.z = rdata.shuffled[1].z

C14_FortyAskedThirtyNineMade ==
  /\ rdata.phase = "generated" /\ rdata.targetCount = 40
  /\ Len(rdata.points) = 39
  /\ rdata.tierCounts.common = 18

-----------------------------------------------------------------------------
ChopOps == {"swing", "autoChop"}

\* the trees an action damaged: those whose life record counts one hit more
Damaged == {t \in TreeIds : life'[t].hits # life[t].hits}

LiveAt(ts, t) == \E e \in MapGet(ts, t) : ~e.isChopped

PlanarSq(ts, t, point) == DistSq((CHOOSE e \in MapGet(ts, t) : TRUE).position, point)

C15_Step ==
  (ev'.op \in ChopOps /\ ev'.ret = "accepted") =>
    LET data == LoadedData(StoreCtx(persisted[ev'.player]))
        point == ev'.info.point
    IN IF data.equippedAxe = "wooden"
       THEN \A t \in Damaged : PlanarSq(trees, t, point) <= 3 * 3
       ELSE /\ ev'.info.searchRadius
                 = AxeAreaRadius[data.equippedAxe]
                   + BonusOf(data.axeAreaBonus, data.equippedAxe) + 10
            /\ ev'.op = "swing" =>
                 Damaged = {t \in TreeIds : LiveAt(trees, t)
                              /\ 100 * PlanarSq(trees, t, point)
                                   <= ev'.info.searchRadius * ev'.info.searchRadius}

\* C15: with the wooden axe equipped an accepted chop never damages a tree whose planar
\* distance from the target point exceeds 3, whatever the area upgrades; with any other
\* axe the search radius is the effective area radius plus 1, with no upper clamp.
C15_WoodenReachCapped == [][C15_Step]_vars

C15_UpgradedWoodenHitsRimOnly ==
  /\ ev.op = "swing" /\ ev.ret = "accepted" /\ ev.info.axe = "wooden"
  /\ ev.info.point = Pos(0, 0)
  /\ ev.info.inRange = <<"t1">>
  /\ life["t1"].hits = 1 /\ life["t2"].hits = 0

C15_SapphireReachesBeyondThree ==
  /\ ev.op = "swing" /\ ev.ret = "accepted" /\ ev.info.axe = "sapphire"
  /\ ev.info.point = Pos(0, 0) /\ ev.info.searchRadius = 52
  /\ life["t2"].hits = 1

-----------------------------------------------------------------------------
C16_Step ==
  ev'.op \in ChopOps =>
    LET p == ev'.player
        cooldown == AxeCooldownMs[LoadedData(StoreCtx(persisted[p])).equippedAxe]
    IN IF ev'.ret \in {"accepted", "nopoint"}
       THEN /\ swung[p].n > 0 => now - swung[p].last >= cooldown
            /\ swung'[p] = [n |-> swung[p].n + 1, last |-> now]
       ELSE UNCHANGED <<trees, life, playerSessions, swung, persisted, timeouts,
                        treeChopsNearSpawnPoint>>

C16_RejectedOneTickEarly ==
  /\ ev.op \in ChopOps /\ ev.ret = "rejected"
  /\ swung[ev.player].n >= 1 /\ now - swung[ev.player].last = 600

-----------------------------------------------------------------------------
InRadius(t, point, radius) ==
  LiveAt(trees, t) /\ 100 * PlanarSq(trees, t, point) <= radius * radius

HitOnce(t, damage) ==
  /\ life'[t].hits = life[t].hits + 1
  /\ life'[t].dealt = life[t].dealt + damage

\* C17 as stated: on the click path and on the auto-chop path alike, an accepted action
\* applies the effective damage exactly once to every live tree within the search
\* radius of the target point.
C17_StepBothPaths ==
  (ev'.op \in ChopOps /\ ev'.ret = "accepted") =>
    \A t \in TreeIds :
      IF InRadius(t, ev'.info.point, ev'.info.searchRadius)
      THEN HitOnce(t, IF ev'.info.axe = "wooden" THEN 18 ELSE 60)
      ELSE life'[t] = life[t]

C17_EveryTreeOnBothPaths == [][C17_StepBothPaths]_vars

C17_Step ==
  (ev'.op \in ChopOps /\ ev'.ret = "accepted") =>
    LET point == ev'.info.point
        near == {t \in TreeIds : InRadius(t, point, ev'.info.searchRadius)}
        damage == IF ev'.info.axe = "wooden" THEN 18 ELSE 60
    IN IF ev'.op = "swing"
       THEN \A t \in TreeIds : IF t \in near THEN HitOnce(t, damage) ELSE life'[t] = life[t]
       ELSE /\ near = {} => life' = life
            /\ near # {} =>
                 \E t \in near :
                   /\ \A u \in near : PlanarSq(trees, t, point) <= PlanarSq(trees, u, point)
                   /\ HitOnce(t, damage)
                   /\ \A u \in TreeIds \ {t} : life'[u] = life[u]

\* C17: an accepted click action applies the effective damage exactly once to every
\* live tree within the search radius of the target point, so one action can destroy
\* several trees; an accepted auto-chop action applies it exactly once to the nearest
\* live tree within the search radius and to no other tree.
C17_AreaOnClickNearestOnAuto == [][C17_Step]_vars

C17_OneSwingFelledBoth ==
  /\ ev.op = "swing" /\ ev.ret = "accepted" /\ ev.info.inRange = <<"t1", "t2">>
  /\ life["t1"].rewards = 1 /\ life["t1"].hits = 1
  /\ life["t2"].rewards = 1 /\ life["t2"].hits = 1

C17_AutoChopLeftTheFartherTree ==
  /\ ev.op = "autoChop" /\ ev.ret = "accepted" /\ ev.info.inRange = <<"t1", "t2">>
  /\ life["t1"].hits = 1 /\ life["t2"].hits = 0

-----------------------------------------------------------------------------
\* T + max(1, ceil(d / tickDurationMs)) of a probe scheduled at tick T with d milliseconds
ProbeTicks(callback) ==
  IF callback.delay <= tickDurationMs THEN 1
  ELSE (callback.delay + tickDurationMs - 1) \div tickDurationMs

ProbeTarget(callback) == callback.at + ProbeTicks(callback)

Pending(ts, id) == \E i \in DOMAIN ts : ts[i].id = id

C18_Step ==
  /\ \A i \in DOMAIN timeouts' :
       /\ timeouts'[i].targetTick = ProbeTarget(timeouts'[i].callback)
       /\ currentTick' < timeouts'[i].targetTick
       /\ FireCount(fires', timeouts'[i].id) = 0
  /\ ev'.op = "tick" =>
       \A i \in DOMAIN timeouts :
         LET id == timeouts[i].id
         IN IF currentTick' >= ProbeTarget(timeouts[i].callback)
            THEN /\ ~Pending(timeouts', id)
                 /\ FireCount(fires', id) = 1
                 /\ fires'[id].tick = currentTick'
            ELSE Pending(timeouts', id)
  /\ \A id \in DOMAIN fires : fires[id].once => fires'[id] = fires[id]

\* C18: a one-shot timer scheduled at tick T with delay d gets target tick
\* T + max(1, ceil(d / tickDurationMs)); its callback never runs in the scan of a tick
\* below the target, runs in the scan of the first notified tick at or above the
\* target, and runs exactly once.
C18_OneShotFiresOnceAtTarget == [][C18_Step]_vars

C18_FiredAtFirstTickPastTarget ==
  /\ ev.op = "tick"
  /\ \E id \in DOMAIN fires :
       /\ fires[id].once /\ fires[id].n = 1
       /\ fires[id].callback.delay = 51
       /\ ProbeTarget(fires[id].callback) = fires[id].callback.at + 2
       /\ fires[id].tick = currentTick
       /\ fires[id].tick = ProbeTarget(fires[id].callback) + 1

C18_RanOnceAndStayedGone ==
  /\ ev.op = "tick"
  /\ \E id \in DOMAIN fires :
       /\ fires[id].once /\ fires[id].n = 1 /\ fires[id].tick < currentTick
       /\ ~Pending(timeouts, id)

-----------------------------------------------------------------------------
DueThrower ==
  \/ \E i \in DOMAIN timeouts :
       currentTick' >= timeouts[i].targetTick /\ timeouts[i].callback.throws
  \/ \E i \in DOMAIN intervals :
       currentTick' >= intervals[i].nextTick /\ intervals[i].callback.throws

C19_Step ==
  (ev'.op = "tick" /\ DueThrower) =>
    /\ ~ev'.info.escaped
    /\ \A i \in DOMAIN timeouts :
         currentTick' >= timeouts[i].targetTick =>
           /\ FireCount(fires', timeouts[i].id) = FireCount(fires, timeouts[i].id) + 1
           /\ ~Pending(timeouts', timeouts[i].id)
    /\ \A i \in DOMAIN intervals :
         currentTick' >= intervals[i].nextTick =>
           /\ FireCount(fires', intervals[i].id) = FireCount(fires, intervals[i].id) + 1
           /\ \E j \in DOMAIN intervals' :
                /\ intervals'[j].id = intervals[i].id
                /\ intervals'[j].nextTick > currentTick'

\* C19: when a timer callback throws during a tick scan, the exception does not leave
\* the scan, every other one-shot and repeating timer due in that scan still fires,
\* the throwing one-shot is still removed and a throwing repeating timer is still
\* rescheduled.
C19_ThrowingCallbackIsContained == [][C19_Step]_vars

C19_ThrowerAndLaterTimerBothRan ==
  /\ ev.op = "tick"
  /\ 1 \in DOMAIN fires /\ 2 \in DOMAIN fires
  /\ fires[1].once /\ fires[1].callback.throws /\ fires[1].tick = currentTick
  /\ ~Pending(timeouts, 1)
  /\ ~fires[2].once /\ fires[2].tick = currentTick
  /\ \E j \in DOMAIN intervals : intervals[j].id = 2 /\ intervals[j].nextTick > currentTick

C19_ThrowingIntervalRescheduled ==
  /\ ev.op = "tick"
  /\ \E j \in DOMAIN intervals :
       /\ intervals[j].callback.throws
       /\ FireCount(fires, intervals[j].id) = 2
       /\ fires[intervals[j].id].tick = currentTick
       /\ intervals[j].nextTick = currentTick + intervals[j].intervalTicks

-----------------------------------------------------------------------------
C20_Step ==
  ev'.op = "tick" =>
    \A i \in DOMAIN intervals :
      LET e == intervals[i]
      IN /\ Len(intervals') = Len(intervals)
         /\ intervals'[i].id = e.id
         /\ IF currentTick' >= e.nextTick
            THEN /\ FireCount(fires', e.id) = FireCount(fires, e.id) + 1
                 /\ intervals'[i].nextTick = currentTick' + ProbeTicks(e.callback)
            ELSE /\ FireCount(fires', e.id) = FireCount(fires, e.id)
                 /\ intervals'[i].nextTick = e.nextTick

\* C20: a repeating timer fires at most once per tick scan, even when the notified tick
\* has advanced by several intervals since its last fire, and after firing in the scan
\* of tick c its next target is exactly c plus its interval in ticks.
C20_OneFirePerScan == [][C20_Step]_vars

C20_ThreeIntervalsElapsedOneFire ==
  /\ ev.op = "tick" /\ ev.info.step = 3
  /\ \E j \in DOMAIN intervals :
       /\ intervals[j].intervalTicks = 1
       /\ FireCount(fires, intervals[j].id) = 2
       /\ fires[intervals[j].id].tick = currentTick
       /\ intervals[j].nextTick = currentTick + 1

-----------------------------------------------------------------------------
C21_Step ==
  /\ \A id \in DOMAIN fires :
       fires[id].cancelled =>
         /\ fires'[id] = fires[id]
         /\ ~Pending(timeouts', id) /\ ~Pending(intervals', id)
  /\ ev'.op = "clearTimeout" =>
       LET id == ev'.info.id
       IN /\ intervals' = intervals
          /\ IF Pending(timeouts, id)
             THEN /\ timeouts' = SelectSeq(timeouts, LAMBDA e : e.id # id)
                  /\ Len(timeouts') = Len(timeouts) - 1
                  /\ fires'[id].cancelled
                  /\ \A other \in DOMAIN fires \ {id} : fires'[other] = fires[other]
             ELSE timeouts' = timeouts /\ fires' = fires
  /\ ev'.op = "clearInterval" =>
       LET id == ev'.info.id
       IN /\ timeouts' = timeouts
          /\ IF Pending(intervals, id)
             THEN /\ intervals' = SelectSeq(intervals, LAMBDA e : e.id # id)
                  /\ Len(intervals') = Len(intervals) - 1
                  /\ fires'[id].cancelled
                  /\ \A other \in DOMAIN fires \ {id} : fires'[other] = fires[other]
             ELSE intervals' = intervals /\ fires' = fires

\* C21: a one-shot or repeating timer cancelled before the scan of its target tick
\* begins never fires afterwards; cancelling a one-shot that has already fired, or an
\* unknown handle, is a no-op that affects no other timer.
C21_CancelledNeverFires == [][C21_Step]_vars

C21_CancelledOneShotPastItsTarget ==
  /\ ev.op = "tick"
  /\ \E id \in DOMAIN fires :
       /\ fires[id].cancelled /\ fires[id].once /\ fires[id].n = 0
       /\ currentTick >= ProbeTarget(fires[id].callback)
       /\ \E other \in DOMAIN fires : other # id /\ fires[other].tick = currentTick

C21_CancelledIntervalStopped ==
  /\ ev.op = "tick"
  /\ \E id \in DOMAIN fires :
       /\ fires[id].cancelled /\ ~fires[id].once /\ fires[id].n = 1
       /\ currentTick >= fires[id].tick + 2 * ProbeTicks(fires[id].callback)

C21_CancelOfFiredOneShot ==
  /\ ev.op = "clearTimeout" /\ ev.ret = 0
  /\ ev.info.id \in DOMAIN fires
  /\ fires[ev.info.id].once /\ fires[ev.info.id].n = 1 /\ ~fires[ev.info.id].cancelled
  /\ Len(timeouts) + Len(intervals) >= 1

-----------------------------------------------------------------------------
UnknownOrDestroyed(ts, treeId) ==
  \A e \in ts : e.id = treeId => e.isChopped

C22_Step ==
  (ev'.op = "damageTree" /\ UnknownOrDestroyed(trees, ev'.target)) =>
    /\ ev'.ret = FALSE
    /\ ev'.saves = <<>>
    /\ UNCHANGED <<trees, life, persisted, treeChopsNearSpawnPoint, timeouts, nextId>>

\* C22: damageTree on an unknown tree id or on an already destroyed tree returns false
\* and changes nothing: no HP change, no reward, no notification and no new respawn
\* timer.
C22_RefusedDamageChangesNothing == [][C22_Step]_vars

C22_HitOnFelledTreeRefused ==
  /\ ev.op = "damageTree" /\ ev.ret = FALSE
  /\ \E e \in trees : e.id = ev.target /\ e.isChopped /\ e.currentHp <= 0
  /\ life[ev.target].rewards = 1 /\ life[ev.target].hits >= 1
  /\ Len(timeouts) = 1

C22_HitOnUnknownTreeRefused ==
  /\ ev.op = "damageTree" /\ ev.ret = FALSE
  /\ \A e \in trees : e.id # ev.target

-----------------------------------------------------------------------------
PlanarWithin(e, center, radius) ==
  100 * ((e.position.x - center.x) * (e.position.x - center.x)
         + (e.position.z - center.z) * (e.position.z - center.z)) <= radius * radius

\* C23: getTreesInRadius(center, r) returns exactly the non-destroyed trees whose planar
\* (x,z) distance to the center is at most r, ignoring any height difference; with
\* r = 0 it returns only trees whose x and z coincide with the center.
C23_ExactlyThePlanarNeighbours ==
  rdata.phase = "queried" =>
    LET in == rdata.input
        found == {rdata.result[i] : i \in DOMAIN rdata.result}
    IN /\ found = {e.id : e \in {t \in in.trees :
                                   ~t.isChopped /\ PlanarWithin(t, in.center, in.radius)}}
       /\ Len(rdata.result) = Cardinality(found)
       /\ in.radius = 0 =>
            \A e \in in.trees :
              e.id \in found =>
                e.position.x = in.center.x /\ e.position.z = in.center.z

C23_FoundTreeThreeBlocksHigher ==
  /\ rdata.phase = "queried"
  /\ rdata.input.radius = 10 /\ rdata.input.center.y = 0
  /\ rdata.result = <<"t2">>
  /\ \E e \in rdata.input.trees :
       /\ e.id = "t2" /\ e.position.y = 3
       /\ e.position.x = rdata.input.center.x + 1 /\ e.position.z = 0
  /\ \E e \in rdata.input.trees : e.id = "t1" /\ e.isChopped /\ e.position.x = rdata.input.center.x

C23_ZeroRadiusFindsCoincidentTree ==
  /\ rdata.phase = "queried" /\ rdata.input.radius = 0
  /\ rdata.result = <<"t1">>
  /\ \E e \in rdata.input.trees : e.id = "t2" /\ ~e.isChopped

-----------------------------------------------------------------------------
Felled(ts, t) == \E e \in ts : e.id = t /\ e.isChopped

\* the species' respawn delay in ticks
RespawnTicks(species) ==
  LET ms == TREES[species].respawnSeconds * 1000
  IN IF ms <= tickDurationMs THEN 1 ELSE (ms + tickDurationMs - 1) \div tickDurationMs

SpeciesAt(t) == (CHOOSE q \in {treeSpawnPoints[i] : i \in DOMAIN treeSpawnPoints} : q.id = t).treeId

LiveAgain(t) ==
  \E q \in {treeSpawnPoints[i] : i \in DOMAIN treeSpawnPoints} :
    /\ q.id = t
    /\ \E e \in trees :
         /\ e.id = t /\ ~e.isChopped /\ e.entity
         /\ e.treeId = q.treeId /\ e.position = q.position
         /\ e.currentHp = e.maxHp /\ e.maxHp = TREES[q.treeId].maxHp

C24_Step ==
  \A t \in TreeIds :
    /\ (~Felled(trees, t) /\ Felled(trees', t)) =>
         \E i \in DOMAIN timeouts' :
           /\ timeouts'[i].callback = [kind |-> "respawnTree", id |-> t]
           /\ timeouts'[i].targetTick = currentTick + RespawnTicks(SpeciesAt(t))
    /\ Felled(trees, t) =>
         /\ Cardinality({i \in DOMAIN timeouts :
                           timeouts[i].callback = [kind |-> "respawnTree", id |-> t]}) = 1
         /\ ~Felled(trees', t) =>
              /\ ev'.op = "tick"
              /\ \E i \in DOMAIN timeouts :
                   /\ timeouts[i].callback = [kind |-> "respawnTree", id |-> t]
                   /\ currentTick' >= timeouts[i].targetTick

\* C24: while ticks keep arriving, every destroyed tree eventually is a live instance
\* again with the same id, species and position and currentHp equal to maxHp, and the
\* respawn never comes earlier than the species' respawn delay, in ticks, after the
\* destruction.
C24_FelledTreeRegrows ==
  /\ [][C24_Step]_vars
  /\ \A t \in TreeIds :
       (Felled(trees, t) /\ currentTick + RespawnTicks(SpeciesAt(t)) <= MaxTickRegrow)
         ~> LiveAgain(t)

C24_OakBackAfterThreeTicks ==
  /\ ev.op = "tick" /\ ev.ret = 1
  /\ LiveAgain("t2") /\ life["t2"] = FreshLife
  /\ LoadedData(StoreCtx(persisted["p1"])).stats.treesChopped >= 1
  /\ Felled(trees, "t1")

-----------------------------------------------------------------------------
\* what the rejection message states: the power message names the gate and the power
\* held, the trees message names how many more trees
Mentions(reason) ==
  IF reason.needs = "power"
  THEN {[what |-> "powerGate", n |-> reason.amount], [what |-> "powerHeld", n |-> reason.have]}
  ELSE IF reason.needs = "trees"
  THEN {[what |-> "moreTrees", n |-> reason.amount]}
  ELSE {}

BothUnmet ==
  /\ ev.op = "chestInteraction" /\ ev.ret = "rejected"
  /\ ev.info.power < ev.info.powerGate
  /\ ev.info.nearbyTrees < ev.info.unlockCost

\* C25: when a collection attempt fails because both the power gate and the nearby-chop
\* requirement are unmet, the rejection reports both unmet conditions with their
\* deficits: how much more power and how many more trees.
C25_RejectionReportsBothDeficits ==
  BothUnmet =>
    /\ [what |-> "morePower", n |-> ev.info.powerGate - ev.info.power]
         \in Mentions(ev.info.reason)
    /\ [what |-> "moreTrees", n |-> ev.info.unlockCost - ev.info.nearbyTrees]
         \in Mentions(ev.info.reason)

C25_BothUnmetOnlyPowerReported ==
  /\ BothUnmet
  /\ ev.info.reason.needs = "power"
  /\ ev.info.reason.amount = ev.info.powerGate /\ ev.info.reason.have = ev.info.power

-----------------------------------------------------------------------------
TotalOf(w) == w[1] + w[2] + w[3] + w[4] + w[5]

\* C26: rollWeighted signals an error and returns no key whenever the total weight of
\* the table is zero or negative, so openChest on such a drop table produces no result
\* list.
C26_BadTableThrows ==
  (rdata.phase = "opened" /\ TotalOf(rdata.input.weights) <= 0) =>
    /\ rdata.key = 0
    /\ rdata.opened.threw
    /\ rdata.opened.results = <<>>

C26_ZeroTotalThrew ==
  /\ rdata.phase = "opened"
  /\ rdata.input.weights = <<1, -1, 0, 0, 0>>
  /\ rdata.key = 0 /\ rdata.opened.threw

C26_GoodTableOpened ==
  /\ rdata.phase = "opened"
  /\ TotalOf(rdata.input.weights) = 1
  /\ rdata.key > 0 /\ ~rdata.opened.threw /\ Len(rdata.opened.results) = 2

-----------------------------------------------------------------------------
\* the persistent-data invariants
ValidData(d) ==
  /\ d.equippedAxe \in AxeIds
  /\ d.equippedAxe \in DOMAIN d.ownedAxes /\ d.ownedAxes[d.equippedAxe] >= 1
  /\ DOMAIN d.ownedAxes \subseteq AxeIds
  /\ \A a \in DOMAIN d.ownedAxes : d.ownedAxes[a] >= 0
  /\ d.power >= 0 /\ d.shards >= 0
  /\ d.stats.treesChopped >= 0 /\ d.stats.chestsOpened >= 0
  /\ d.stats.totalShardsClaimed >= 0

\* C27: every snapshot returned by a load of player data satisfies the persistent-data
\* invariants (equipped axe valid and owned, owned-axe map of valid ids with
\* non-negative counts, power, shards and stats non-negative), whatever blob was
\* persisted, because a repair is applied and persisted on every load.
C27_LoadedSnapshotIsValid ==
  ev.op = "load" => ValidData(ev.info.snapshot)

C27_NegativePowerLoadedAsStored ==
  /\ ev.op = "load"
  /\ ev.info.stored.power = -5 /\ ev.info.snapshot.power = -5
  /\ ev.info.snapshot.equippedAxe = "wooden" /\ ev.info.snapshot.ownedAxes = [a \in {"wooden"} |-> 1]
  /\ ev.saves = <<>>
  /\ persisted["p1"].data.power = -5

-----------------------------------------------------------------------------
StoreInvariants(d) ==
  /\ d.power >= 0 /\ d.shards >= 0
  /\ d.stats.treesChopped >= 0 /\ d.stats.chestsOpened >= 0
  /\ d.stats.totalShardsClaimed >= 0
  /\ d.equippedAxe \in AxeIds
  /\ Owned(d, d.equippedAxe) >= 1

\* C28: starting from default player data, after any sequence of the store's mutation
\* operations (awardPower, awardShards, grantAxe, equipping, chest opening,
\* upgradeDamage, upgradeArea, stat increments), power, shards and every stat counter
\* are never negative, equippedAxe is a valid axe id and ownedAxes[equippedAxe] is at
\* least 1.
C28_StoreInvariantsKept ==
  LET d == LoadedData(StoreCtx(persisted["p1"]))
  IN /\ StoreInvariants(d)
     /\ \A a \in AxeIds :
          /\ StoreInvariants(upgradeDamage(d, a).data)
          /\ StoreInvariants(upgradeArea(d, a).data)

C28_PowerBelowZeroAfterCommand ==
  /\ ev.op = "power" /\ ev.ret = -5
  /\ LoadedData(StoreCtx(persisted["p1"])).power = -5
  /\ LoadedData(StoreCtx(persisted["p1"])).stats = DEFAULT_PLAYER_DATA.stats

C28_UpgradeBoughtWithShards ==
  LET d == LoadedData(StoreCtx(persisted["p1"]))
  IN /\ d.power >= 0 /\ upgradeDamage(d, "wooden").ok
     /\ upgradeDamage(d, "wooden").data.shards = d.shards - 25

-----------------------------------------------------------------------------
\* the squared planar distance of a tree spawn point from the player start point (0,0)
FromStartSq(tree) == tree.position.x * tree.position.x + tree.position.z * tree.position.z

C30_EveryChestHasItsCostInTrees ==
  (worldCfg = "forest" /\ rdata.phase = "generated") =>
    \A i \in DOMAIN rdata.chests :
      TreesInRadius(rdata.trees, rdata.chests[i]) >= rdata.chests[i].unlockCostTrees

\* the common chest of the islet costs 8 chops and the whole islet holds 5 trees
C30_IsletChestShortOfTrees ==
  /\ worldCfg = "forest" /\ rdata.phase = "generated" /\ rdata.map = "islet"
  /\ Len(rdata.trees) = 5
  /\ \E i \in DOMAIN rdata.chests :
       /\ rdata.chests[i].chestType = "common"
       /\ rdata.chests[i].unlockCostTrees = 8
       /\ TreesInRadius(rdata.trees, rdata.chests[i]) = 5

-----------------------------------------------------------------------------
\* C31: immediately after the damageTree call that destroys a tree, the manager's
\* instance map has no entry for that tree id (getTree(id) returns nothing), and it
\* stays without one until the respawn creates the fresh instance.
C31_NoEntryAfterDestruction ==
  (ev.op = "damageTree" /\ ev.ret = TRUE) => getTree(trees, ev.target) = {}

C31_Step ==
  \A t \in TreeIds :
    /\ (ev'.op = "damageTree" /\ ev'.ret = TRUE /\ ev'.target = t) =>
         /\ \E e \in getTree(trees', t) : e.isChopped /\ e.currentHp <= 0
         /\ \A e \in getAllTrees(trees') : e.id # t
         /\ DamageRefused(trees', t)
    /\ Felled(trees, t) =>
         \/ \E e \in getTree(trees', t) : e.isChopped
         \/ ev'.op = "tick" /\ LiveAgain(t)'

\* C31 as the code has it: after the damageTree call that destroys a tree the instance
\* map still holds the entry of that tree id, marked isChopped (getTree(id) returns the
\* chopped instance, getAllTrees leaves it out and damageTree refuses it), and the
\* entry stays until the respawn timer replaces it with the fresh instance.
C31_ChoppedEntryKeptUntilRespawn ==
  /\ [][C31_Step]_vars
  /\ [](\A t \in TreeIds : Felled(trees, t) => Cardinality(getTree(trees, t)) = 1)

\* the fern was destroyed by this call and getTree still returns it, chopped
C31_FelledFernStillInMap ==
  /\ ev.op = "damageTree" /\ ev.ret = TRUE /\ ev.target = "t1"
  /\ \E e \in getTree(trees, "t1") : e.isChopped /\ e.entity
  /\ \E i \in DOMAIN timeouts : timeouts[i].callback = [kind |-> "respawnTree", id |-> "t1"]

-----------------------------------------------------------------------------
\* C32: openChest returns exactly one result when the equipped axe has no extra-roll
\* perk, and otherwise exactly two results when the first rng draw is below the perk's
\* chance and exactly one when it is not; it never returns zero or more than two
\* results and never modifies the player snapshot it is given.
C32_OneResultOrTwoWithThePerk ==
  (worldCfg = "opening" /\ rdata.phase = "opened") =>
    LET chance == ExtraRollChance[rdata.input.playerData.equippedAxe]
        n == Len(rdata.results)
    IN /\ n \in {1, 2}
       /\ chance = 0 => n = 1
       /\ chance > 0 => (n = 2 <=> rdata.input.draws[1] < chance)
       /\ rdata.playerData = rdata.input.playerData

\* the emerald axe is equipped and the first draw is just below its chance: two results
C32_TwoResultsJustBelowChance ==
  /\ worldCfg = "opening" /\ rdata.phase = "opened"
  /\ rdata.input.playerData.equippedAxe = "emerald" /\ rdata.input.draws[1] = 199
  /\ Len(rdata.results) = 2

\* the emerald axe is equipped and the first draw equals its chance: one result
C32_OneResultAtChance ==
  /\ worldCfg = "opening" /\ rdata.phase = "opened"
  /\ rdata.input.playerData.equippedAxe = "emerald" /\ rdata.input.draws[1] = 200
  /\ Len(rdata.results) = 1

-----------------------------------------------------------------------------
\* C33: no two chest spawn points produced by generateChestSpawnPoints, of the same
\* tier or of different tiers, have the same (x,z) position.
C33_NoTwoChestsOnOnePosition ==
  (worldCfg = "worldgen" /\ rdata.phase = "generated") =>
    \A i, j \in DOMAIN rdata.points :
      i # j => <<rdata.points[i].position.x, rdata.points[i].position.z>>
                 # <<rdata.points[j].position.x, rdata.points[j].position.z>>

\* a common chest stands where a chest of a higher tier already stands: the candidate's
\* grid key at spacing 8 differs from its grid key at spacing 12
C33_CommonChestOnTakenPosition ==
  /\ worldCfg = "worldgen" /\ rdata.phase = "generated"
  /\ \E i, j \in DOMAIN rdata.points :
       /\ rdata.points[i].chestType # "common" /\ rdata.points[j].chestType = "common"
       /\ rdata.points[i].position = rdata.points[j].position
       /\ GridKey(rdata.points[i].position, 12) # GridKey(rdata.points[j].position, 8)

\* chests of one tier never share a position
C33_OneTierNeverShares ==
  (worldCfg = "worldgen" /\ rdata.phase = "generated") =>
    \A i, j \in DOMAIN rdata.points :
      (i # j /\ rdata.points[i].chestType = rdata.points[j].chestType)
        => rdata.points[i].position # rdata.points[j].position

-----------------------------------------------------------------------------
\* C34: after repairPlayerData returns, the snapshot's ownedAxes contains only valid axe
\* ids with finite non-negative numeric counts and its wooden count is at least 1, for
\* every input snapshot.
C34_OwnedAxesSaneAfterRepair ==
  (worldCfg = "repair" /\ rdata.phase = "repaired") =>
    /\ \A id \in DOMAIN rdata.data.ownedAxes :
         id \in AxeIds /\ IsCount(rdata.data.ownedAxes[id])
    /\ "wooden" \in DOMAIN rdata.data.ownedAxes
    /\ rdata.data.ownedAxes["wooden"].t = "num" /\ rdata.data.ownedAxes["wooden"].v >= 1

\* the failing input of C34: the stone axe is equipped and owned, the wooden count is 0;
\* the sanitised copy has wooden 1 but the same keys, so the snapshot keeps wooden 0 and
\* no update is returned
C34_WoodenZeroLeftAsIs ==
  /\ worldCfg = "repair" /\ rdata.phase = "repaired"
  /\ rdata.input.equippedAxe = "stone"
  /\ rdata.input.ownedAxes = [a \in {"wooden", "stone"} |->
                                IF a = "wooden" THEN Num(0) ELSE Num(1)]
  /\ rdata.data.ownedAxes = rdata.input.ownedAxes
  /\ "ownedAxes" \notin DOMAIN rdata.updates

-----------------------------------------------------------------------------
\* C35: in the wired game (ChoppingSystem, the onTreeChopped callback and ChestManager
\* together) each tree destruction by a player raises that player's chop counter by
\* exactly 1 for every live chest whose nearby radius contains the tree, and changes no
\* other player's counter.
C35_FelledInStep ==
  {t \in trees' : t.isChopped /\ \E u \in trees : u.id = t.id /\ ~u.isChopped}

C35_Step ==
  \A i \in DOMAIN chestSpawnPoints, p \in Players :
    LET point == chestSpawnPoints[i]
        radius == IF "nearbyRadius" \in DOMAIN point THEN point.nearbyRadius
                  ELSE NEARBY_TREES_RADIUS
        near == {t \in C35_FelledInStep :
                   \E c \in MapGet(chests, point.id) :
                     ~c.isCollected /\ DistSq(c.position, t.position) <= radius * radius}
    IN point.id \in DOMAIN treeChopsNearSpawnPoint =>
         treeChopsNearSpawnPoint'[point.id][p] =
           treeChopsNearSpawnPoint[point.id][p]
             + (IF ev'.player = p THEN Cardinality(near) ELSE 0)

C35_OneCountPerDestruction == [][C35_Step]_vars

\* one accepted swing or auto chop has felled one fern near the live chest c1, and the
\* counter of the player stands at 2
C35_OneFernCountedTwice ==
  /\ worldCfg = "orchard"
  /\ ev.op \in {"swing", "autoChop"} /\ ev.ret = "accepted"
  /\ Cardinality({t \in trees : t.isChopped}) = 1
  /\ \E c \in MapGet(chests, "c1") : ~c.isCollected
  /\ treeChopsNearSpawnPoint["c1"]["p1"] = 2
  /\ treeChopsNearSpawnPoint["c1"]["p2"] = 0

-----------------------------------------------------------------------------
\* C36: if, during one tick scan, the callback of a due timer cancels another timer that
\* is due in the same scan and has not yet run, the cancelled timer's callback does not
\* run in that scan or later.
C36_Step ==
  \A i, j \in DOMAIN timeouts :
    LET c == timeouts[i]
        t == timeouts[j]
    IN (/\ currentTick' # currentTick
        /\ i < j
        /\ c.callback.kind = "cancel" /\ c.callback.target = t.id
        /\ IsDue(currentTick', c) /\ IsDue(currentTick', t)
        /\ \A k \in 1..(i - 1) : ~(/\ timeouts[k].callback.kind = "cancel"
                                   /\ timeouts[k].callback.target = c.id
                                   /\ IsDue(currentTick', timeouts[k])))
       => /\ FireCount(fires', t.id) = FireCount(fires, t.id)
          /\ \A m \in DOMAIN timeouts' : timeouts'[m].id # t.id

C36_CancelledInScanNeverRuns == [][C36_Step]_vars

\* a probe that was pending when a callback of the same scan cancelled it has run in
\* that scan all the same
C36_CancelledProbeRanInSameScan ==
  /\ worldCfg = "cancelscan"
  /\ ev.op = "tick"
  /\ \E id \in DOMAIN fires :
       /\ fires[id].cancelled /\ fires[id].once
       /\ fires[id].n = 1 /\ fires[id].tick = currentTick
       /\ \A m \in DOMAIN timeouts : timeouts[m].id # id

-----------------------------------------------------------------------------
\* C37: a single openChest call never returns two axe results for the same axe id: when
\* both rolls of a two-roll opening land on the same axe that the player did not own, the
\* second roll is converted to shards.
C37_NoAxeTwiceInOneOpening ==
  (worldCfg = "opening" /\ rdata.phase = "opened") =>
    \A i, j \in DOMAIN rdata.results :
      (i < j /\ rdata.results[i].kind = "axe" /\ rdata.results[j].kind = "axe")
        => rdata.results[i].axeId # rdata.results[j].axeId

\* both rolls of an opening with the perk landed on one axe the player did not own, and
\* both came back as axe results
C37_SameNewAxeOnBothRolls ==
  /\ worldCfg = "opening" /\ rdata.phase = "opened"
  /\ Len(rdata.results) = 2
  /\ rdata.results[1].kind = "axe" /\ rdata.results[2].kind = "axe"
  /\ rdata.results[1].axeId = rdata.results[2].axeId
  /\ Owned(rdata.input.playerData, rdata.results[1].axeId) = 0

-----------------------------------------------------------------------------
\* C38: after cleanup() of the tree manager or the chest manager, with no later spawnAll,
\* no tree or chest instance ever exists again: a respawn timer that was pending at
\* cleanup time does not recreate an instance when it fires.
C38_TreesStayCleared == trees = {} => trees' = {}

C38_ChestsStayCleared == chests = {} => chests' = {}

C38_NothingComesBackAfterCleanup ==
  [][C38_TreesStayCleared /\ C38_ChestsStayCleared]_vars

\* the part of C38 about the tree manager alone
C38_NoTreeComesBackAfterCleanup == [][C38_TreesStayCleared]_vars

\* the chest manager was cleaned up (its chop map is empty), and the tick that fired a
\* respawn timer left from before the cleanup has put a live chest back
C38_ChestBackAfterCleanup ==
  /\ worldCfg = "cleared"
  /\ treeChopsNearSpawnPoint = EmptyMap
  /\ ev.op = "tick"
  /\ \E c \in chests : ~c.isCollected

-----------------------------------------------------------------------------
\* C39: repairPlayerData is idempotent: for every input snapshot, a second call made
\* directly after the first returns an empty patch and leaves the snapshot unchanged.
C39_SecondRepairChangesNothing ==
  (worldCfg = "repair" /\ rdata.phase = "again") =>
    /\ DOMAIN rdata.updates2 = {}
    /\ rdata.data2 = rdata.data

\* the stone axe was equipped with a count that is not a number: the first call dropped
\* the stone entry, the second call put it back with count 1 and returned it
C39_SecondRepairGrantsEquipped ==
  /\ worldCfg = "repair" /\ rdata.phase = "again"
  /\ rdata.input.equippedAxe = "stone"
  /\ rdata.input.ownedAxes = [a \in {"wooden", "stone"} |->
                                IF a = "wooden" THEN Num(1) ELSE NaN]
  /\ DOMAIN rdata.data.ownedAxes = {"wooden"}
  /\ "ownedAxes" \in DOMAIN rdata.updates2
  /\ rdata.data2.ownedAxes = [a \in {"wooden", "stone"} |-> Num(1)]

-----------------------------------------------------------------------------
\* C40: no operation performed for one player (first load, chest reward application,
\* upgrades, repair) changes the shared default player data, so a player who loads for
\* the first time always receives power 0, shards 0, only the wooden axe owned and
\* equipped, and all stats 0, whatever other players did before.
C40_DefaultsNeverChange ==
  worldCfg = "defaults" =>
    /\ rdata.defaults = NestedOf(DEFAULT_PLAYER_DATA)
    /\ (ev.op = "loadPlayerData" /\ ev.ret = "first") =>
         /\ ev.info.received.power = 0 /\ ev.info.received.shards = 0
         /\ ev.info.received.ownedAxes = [a \in {"wooden"} |-> 1]
         /\ ev.info.received.equippedAxe = "wooden"
         /\ \A k \in DOMAIN ev.info.received.stats : ev.info.received.stats[k] = 0

\* p1 loaded first and had a chest reward applied to what it was given; p2, loading for
\* the first time afterwards, receives the ruby axe and one opened chest
C40_SecondPlayerStartsWithRuby ==
  /\ worldCfg = "defaults"
  /\ ev.op = "loadPlayerData" /\ ev.ret = "first" /\ ev.player = "p2"
  /\ rdata.held["p1"].has
  /\ Owned(ev.info.received, "ruby") = 1
  /\ ev.info.received.stats.chestsOpened = 1
  /\ ev.info.received.shards = 0

====
